---- MODULE Spec2Model ----
(***************************************************************************)
(* Model of the humble-tools download subsystem:                           *)
(*   sync/download_queue.py  DownloadQueue (semaphore + display counters)  *)
(*   sync/config.py          AppConfig validation                          *)
(*   sync/app.py             ItemFormatRow flags, BundleDetailsScreen      *)
(*                           handlers and the download_format worker       *)
(*                                                                         *)
(* Two specifications share the queue operators:                           *)
(*   SpecQueue  a client constructing a configuration / a queue and then   *)
(*              calling the public DownloadQueue methods in any order;     *)
(*   Spec       the details screen: UI thread callbacks and download_format*)
(*              worker threads interleaving on one DownloadQueue.          *)
(***************************************************************************)
EXTENDS Integers, Sequences, FiniteSets, TLC

\* ---------------------------------------------------------------- bounds
\* how far below 1 / above 10 the constructor arguments are drawn
ArgSpan == 2
\* how many mark_queued calls a client of SpecQueue makes at most
MaxMarks == 3
\* how many acquire/release calls a client of SpecQueue makes at most
MaxHist == 6
\* number of download_format workers that can be in flight together (Spec)
NumWorkers == 2
\* largest max_concurrent_downloads the details screen is built with (Spec)
MaxSlots == 1
\* longest formats list of a row whose helpers are called (SpecRow)
MaxFormats == 2
\* threads that call the DownloadQueue methods concurrently (SpecLock)
NumThreads == 2
\* calls the threads make together (SpecLock)
MaxCalls == 5

\* ------------------------------------------------------ program constants
\* download_queue.py: "if max_concurrent < 1"
MinConcurrent == 1
\* download_queue.py: "if max_concurrent > 10"
MaxConcurrentLimit == 10
\* config.py: "if self.notification_duration < 1"
MinNotificationDuration == 1
\* config.py: "if self.item_removal_delay < 0"
MinItemRemovalDelay == 0

VARIABLES
    \* the DownloadQueue object: NoQueue, or a record of its fields
    queue,
    \* the AppConfig object: NoConfig, or a record of its fields
    config,
    \* outcome of the last constructor call: "none", "ok", "ValueError"
    built,
    \* the last constructor or DownloadQueue method called by the client, its
    \* arguments and what it returned or raised
    call,
    \* results of the client's acquire(blocking=False) / release() calls
    hist,
    \* number of mark_queued() calls the client has made
    n_queued_calls,
    \* ItemFormatRow.format_status / format_queued / format_downloading of every
    \* row, each seen through dict.get(fmt, False)
    format_status,
    format_queued,
    format_downloading,
    \* ItemFormatRow.selected_format of every row
    selected_format,
    \* download_format workers: where each one is in the function body
    pc,
    \* download_format locals: item_row, selected_format, and the transfer's result
    w_row,
    w_fmt,
    outcome,
    \* per request in flight: how often it has executed mark_completed()
    n_mark_completed,
    \* per request in its early returns: its (item, format) has been completed,
    \* queued or downloading at every moment since the request started
    blocked,
    \* for the observed request: queue.active when it was submitted, and whether
    \* no other request has been in flight since
    before,
    solo,
    \* ItemFormatRow.formats and ItemFormatRow.item_number of every row object
    formats,
    item_number,
    \* the row objects that are children of the items ListView
    items_list,
    \* BundleDetailsScreen.bundle_key and HumbleBundleTUI.current_screen
    bundle_key,
    current_screen,
    \* a load_details worker has been started and has not run yet
    loading,
    \* how many times load_details has rebuilt the rows
    n_loads,
    \* DownloadTracker: the (bundle_key, item_number, format) marked downloaded
    tracker,
    \* the results a scripted download_item still has to produce, and the
    \* calls it has answered with their results (SpecRetry)
    side_effect,
    call_args_list,
    \* download_format: the exception caught by "except Exception"
    error,
    \* per request in flight: the notifications it has shown
    notified,
    \* per request in flight: the arguments it has called download_item with
    t_args,
    \* per request in flight: bundle_key at the moment it was submitted
    w_bundle,
    \* per request in flight: how often its download_item has called
    \* tracker.mark_downloaded
    n_mark_downloaded,
    \* DownloadQueue._lock: the thread inside "with self._lock", or NoThread
    lock,
    \* threads calling the DownloadQueue methods: the method each one is in, the
    \* statement it is at, the value it has loaded, the QueueStats it is building
    t_op,
    t_pc,
    t_tmp,
    t_stats,
    \* how many mark_queued / mark_started / mark_completed calls have returned
    \* without raising, and how many calls have been made at all
    done,
    n_calls,
    \* per row object: the maybe_remove_item timers set and not yet fired
    timers

qvars == <<queue, config, built, call, hist, n_queued_calls>>
rowvars == <<format_status, format_queued, format_downloading, selected_format>>
wvars == <<pc, w_row, w_fmt, outcome, n_mark_completed, blocked, before, solo>>
navvars == <<formats, item_number, items_list, bundle_key, current_screen, loading, n_loads>>
envvars == <<tracker, side_effect, call_args_list>>
reqvars == <<error, notified, t_args, w_bundle, n_mark_downloaded>>
lockvars == <<lock, t_op, t_pc, t_tmp, t_stats, done, n_calls>>
timervars == <<timers>>
vars == <<qvars, rowvars, wvars, navvars, envvars, reqvars, lockvars, timervars>>

NoQueue == [max_concurrent |-> 0, semaphore |-> 0, active |-> 0, queued |-> 0, live |-> FALSE]
NoConfig == [max_concurrent_downloads |-> 0, notification_duration |-> 0,
             item_removal_delay |-> 0, live |-> FALSE]
NoStats == [active |-> 0, queued |-> 0, max_concurrent |-> 0]
NoCall == [op |-> "none", args |-> << >>, ret |-> "none", stats |-> NoStats]

\* ------------------------------------------------- DownloadQueue (pure part)

\* variant of DownloadQueueInit that forgets the upper limit
DownloadQueueInit_NoUpperLimit(max_concurrent) ==
    IF max_concurrent < MinConcurrent
    THEN [raised |-> TRUE, q |-> NoQueue]
    ELSE [raised |-> FALSE,
          q |-> [max_concurrent |-> max_concurrent, semaphore |-> max_concurrent,
                 active |-> 0, queued |-> 0, live |-> TRUE]]

\* DownloadQueue.__init__: the constructed object, or the ValueError
DownloadQueueInit(max_concurrent) ==
    IF max_concurrent < MinConcurrent
    THEN [raised |-> TRUE, q |-> NoQueue]
    ELSE IF max_concurrent > MaxConcurrentLimit
    THEN [raised |-> TRUE, q |-> NoQueue]
    ELSE [raised |-> FALSE,
          q |-> [max_concurrent |-> max_concurrent, semaphore |-> max_concurrent,
                 active |-> 0, queued |-> 0, live |-> TRUE]]

\* variant of mark_queued that counts every request twice
mark_queued_Twice(q) ==
    [raised |-> FALSE, q |-> [q EXCEPT !.queued = @ + 2]]

\* DownloadQueue.mark_queued
mark_queued(q) ==
    [raised |-> FALSE, q |-> [q EXCEPT !.queued = @ + 1]]

\* variant of mark_started whose guard is off by one (queued < 0)
mark_started_OffByOne(q) ==
    IF q.queued < 0
    THEN [raised |-> TRUE, q |-> q]
    ELSE [raised |-> FALSE, q |-> [q EXCEPT !.queued = @ - 1, !.active = @ + 1]]

\* variant of mark_started that leaves the download counted as queued
mark_started_KeepsQueued(q) ==
    IF q.queued <= 0
    THEN [raised |-> TRUE, q |-> q]
    ELSE [raised |-> FALSE, q |-> [q EXCEPT !.active = @ + 1]]

\* DownloadQueue.mark_started
mark_started(q) ==
    IF q.queued <= 0
    THEN [raised |-> TRUE, q |-> q]
    ELSE [raised |-> FALSE, q |-> [q EXCEPT !.queued = @ - 1, !.active = @ + 1]]

\* variant of mark_completed without the "nothing active" guard
mark_completed_Unguarded(q) ==
    [raised |-> FALSE, q |-> [q EXCEPT !.active = @ - 1]]

\* variant of mark_completed that also puts the download back in the queue
mark_completed_Requeue(q) ==
    IF q.active <= 0
    THEN [raised |-> TRUE, q |-> q]
    ELSE [raised |-> FALSE, q |-> [q EXCEPT !.active = @ - 1, !.queued = @ + 1]]

\* DownloadQueue.mark_completed
mark_completed(q) ==
    IF q.active <= 0
    THEN [raised |-> TRUE, q |-> q]
    ELSE [raised |-> FALSE, q |-> [q EXCEPT !.active = @ - 1]]

\* variant of acquire(blocking=False) whose failed attempt still takes a slot
acquire_nonblocking_Consuming(q) ==
    IF q.semaphore > 0
    THEN [ret |-> TRUE, q |-> [q EXCEPT !.semaphore = @ - 1]]
    ELSE [ret |-> FALSE, q |-> [q EXCEPT !.semaphore = @ - 1]]

\* DownloadQueue.acquire(blocking=False): threading.Semaphore.acquire
acquire_nonblocking(q) ==
    IF q.semaphore > 0
    THEN [ret |-> TRUE, q |-> [q EXCEPT !.semaphore = @ - 1]]
    ELSE [ret |-> FALSE, q |-> q]

\* variant of the blocking acquire() that never waits
acquire_enabled_Always(q) == TRUE

\* DownloadQueue.acquire(): can return only when a slot is free
acquire_enabled(q) == q.semaphore > 0

\* variant of DownloadQueue.release that does not give the slot back
release_Leaks(q) == q

\* variant of release for a bounded semaphore: no slot beyond max_concurrent
release_Bounded(q) ==
    IF q.semaphore >= q.max_concurrent THEN q ELSE [q EXCEPT !.semaphore = @ + 1]

\* DownloadQueue.release: threading.Semaphore.release (unbounded)
release(q) == [q EXCEPT !.semaphore = @ + 1]

\* DownloadQueue.get_stats
get_stats(q) ==
    [active |-> q.active, queued |-> q.queued, max_concurrent |-> q.max_concurrent]

\* ----------------------------------------------------------------- AppConfig

\* AppConfig.__post_init__: the constructed object, or the ValueError
AppConfigInit(mcd, nd, ird) ==
    IF mcd < MinConcurrent
    THEN [raised |-> TRUE, c |-> NoConfig]
    ELSE IF nd < MinNotificationDuration
    THEN [raised |-> TRUE, c |-> NoConfig]
    ELSE IF ird < MinItemRemovalDelay
    THEN [raised |-> TRUE, c |-> NoConfig]
    ELSE [raised |-> FALSE,
          c |-> [max_concurrent_downloads |-> mcd, notification_duration |-> nd,
                 item_removal_delay |-> ird, live |-> TRUE]]

\* BundleDetailsScreen.__init__: builds its DownloadQueue from the config
BundleDetailsScreenInit(c) == DownloadQueueInit(c.max_concurrent_downloads)

\* -------------------------------------------------------------- ItemFormatRow

\* the rows load_details builds: the formats list of each item
RowFormats == << <<"EPUB", "PDF">>, << >> >>
Rows == 1..Len(RowFormats)
NoFormat == "None"
Range(seq) == {seq[i] : i \in 1..Len(seq)}
FormatsOf(r) == Range(RowFormats[r])

\* ItemFormatRow.__init__: selected_format or (formats[0] if formats else None)
InitialSelected(r) == IF Len(RowFormats[r]) > 0 THEN RowFormats[r][1] ELSE NoFormat

\* list.index(selected_format)
IndexOf(seq, x) == CHOOSE i \in 1..Len(seq) : seq[i] = x /\ \A j \in 1..(i - 1) : seq[j] # x

\* ItemFormatRow.cycle_format: the new selected_format
cycle_format(row_formats, selected) ==
    IF Len(row_formats) = 0
    THEN selected
    ELSE LET current_idx == IF selected \in Range(row_formats) THEN IndexOf(row_formats, selected) - 1 ELSE 0
             next_idx == (current_idx + 1) % Len(row_formats)
         IN  row_formats[next_idx + 1]

\* dict.get(fmt, False) on one row's flag dictionary
Get(d, r, f) == IF f \in DOMAIN d[r] THEN d[r][f] ELSE FALSE
\* d[fmt] = v on one row's flag dictionary
Put(d, r, f, v) == [d EXCEPT ![r][f] = v]

\* variant of _all_formats_downloaded that is content with one downloaded format
all_formats_downloaded_Any(row_formats, row_status) ==
    \E i \in 1..Len(row_formats) :
        IF row_formats[i] \in DOMAIN row_status THEN row_status[row_formats[i]] ELSE FALSE

\* BundleDetailsScreen._all_formats_downloaded:
\* all(item_row.format_status.get(fmt, False) for fmt in item_row.formats)
all_formats_downloaded(row_formats, row_status) ==
    \A i \in 1..Len(row_formats) :
        IF row_formats[i] \in DOMAIN row_status THEN row_status[row_formats[i]] ELSE FALSE

\* StatusSymbols / Colors returned by _get_status_indicator
QUEUED == <<"QUEUED", "INFO">>
DOWNLOADING == <<"DOWNLOADING", "WARNING">>
DOWNLOADED == <<"DOWNLOADED", "SUCCESS">>
NOT_DOWNLOADED == <<"NOT_DOWNLOADED", "None">>

\* variant of _get_status_indicator that tests format_downloading first
get_status_indicator_DownloadingFirst(d_queued, d_downloading, d_status, r, fmt) ==
    IF Get(d_downloading, r, fmt) THEN DOWNLOADING
    ELSE IF Get(d_queued, r, fmt) THEN QUEUED
    ELSE IF Get(d_status, r, fmt) THEN DOWNLOADED
    ELSE NOT_DOWNLOADED

\* ItemFormatRow._get_status_indicator
get_status_indicator(d_queued, d_downloading, d_status, r, fmt) ==
    IF Get(d_queued, r, fmt) THEN QUEUED
    ELSE IF Get(d_downloading, r, fmt) THEN DOWNLOADING
    ELSE IF Get(d_status, r, fmt) THEN DOWNLOADED
    ELSE NOT_DOWNLOADED

\* ------------------------------------------------- transfer errors, tracker

\* the exceptions download_item raises: the CLI wrapper's error, an I/O error,
\* an error of the HumbleToolsError family, any other Exception
Exceptions == {"HumbleCLIError", "OSError", "HumbleToolsError", "Exception"}
NoError == [class |-> "None", user_message |-> "None", str |-> "None", cause |-> "None"]

\* the exception object as raised: HumbleToolsError carries a user_message
Raised(e) ==
    [class |-> e,
     user_message |-> IF e = "HumbleToolsError" THEN "user_message of the error" ELSE "None",
     str |-> IF e = "HumbleToolsError" THEN "message of the error" ELSE "str of the error",
     cause |-> "None"]

\* download_format, inner try: HumbleCLIError and IOError / OSError are wrapped
\* in DownloadError ("raise DownloadError(...) from e"), everything else
\* passes through
Wrapped(e) ==
    IF e = "HumbleCLIError"
    THEN [class |-> "DownloadError",
          user_message |-> "Download failed for item_name. Please try again.",
          str |-> "str of the error",
          cause |-> e]
    ELSE IF e = "OSError"
    THEN [class |-> "DownloadError",
          user_message |-> "File error during download: str of the error",
          str |-> "str of the error",
          cause |-> e]
    ELSE Raised(e)

\* isinstance(error, HumbleToolsError)
IsHumbleToolsError(err) == err.class \in {"HumbleToolsError", "DownloadError"}

\* variant of the message choice that always shows str(error)
error_msg_AlwaysStr(err) == err.str

\* _handle_download_error: error.user_message for a HumbleToolsError, else str(error)
error_msg(err) == IF IsHumbleToolsError(err) THEN err.user_message ELSE err.str

\* the purchased bundles the user can open
Bundles == {"bundle_a", "bundle_b"}
NoBundle == "None"
NoArgs == [bundle_key |-> NoBundle, item_number |-> 0, format_name |-> NoFormat]

\* str.lower() on a format name
Lower(f) == IF f = "EPUB" THEN "epub" ELSE IF f = "PDF" THEN "pdf" ELSE f

\* download_manager._create_file_id
create_file_id(b, n, f) == <<b, n, Lower(f)>>

\* ------------------------------------------- BundleDetailsScreen (Spec state)

Workers == 1..NumWorkers
NoRow == 0
Outcomes == {"true", "false", "raise"}
\* the (item, format) pairs of the loaded bundle
Targets == {t \in Rows \X {"EPUB", "PDF"} : t[2] \in FormatsOf(t[1])}

\* the threads of SpecLock; no thread is inside "with self._lock"
Threads == 1..NumThreads
NoThread == 0
NoDone == [mark_queued |-> 0, mark_started |-> 0, mark_completed |-> 0]

\* no thread is calling the queue, and no removal timer is pending
NoThreads ==
    /\ lock = NoThread
    /\ t_op = [t \in Threads |-> "none"]
    /\ t_pc = [t \in Threads |-> 0]
    /\ t_tmp = [t \in Threads |-> 0]
    /\ t_stats = [t \in Threads |-> NoStats]
    /\ done = NoDone
    /\ n_calls = 0
    /\ timers = [r \in DOMAIN formats |-> 0]

\* the screen right after load_details: a queue built from a valid config, the
\* rows with format_status from the tracker, nothing queued or downloading
Init ==
    /\ \E n \in MinConcurrent..MaxSlots : queue = BundleDetailsScreenInit(AppConfigInit(n, MinNotificationDuration, MinItemRemovalDelay).c).q
    /\ config = NoConfig
    /\ built = "ok"
    /\ call = NoCall
    /\ hist = << >>
    /\ n_queued_calls = 0
    /\ \E is_downloaded \in [Targets -> BOOLEAN] :
           format_status = [r \in Rows |-> [f \in FormatsOf(r) |-> is_downloaded[<<r, f>>]]]
    /\ format_queued = [r \in Rows |-> [f \in FormatsOf(r) |-> FALSE]]
    /\ format_downloading = [r \in Rows |-> [f \in FormatsOf(r) |-> FALSE]]
    /\ selected_format = [r \in Rows |-> InitialSelected(r)]
    /\ pc = [w \in Workers |-> "idle"]
    /\ w_row = [w \in Workers |-> NoRow]
    /\ w_fmt = [w \in Workers |-> NoFormat]
    /\ outcome = [w \in Workers |-> "none"]
    /\ n_mark_completed = [w \in Workers |-> 0]
    /\ blocked = [w \in Workers |-> FALSE]
    /\ before = 0
    /\ solo = FALSE
    /\ formats = [r \in Rows |-> RowFormats[r]]
    /\ item_number = [r \in Rows |-> r]
    /\ items_list = Rows
    /\ bundle_key = "bundle_a"
    /\ current_screen = "details"
    /\ loading = FALSE
    /\ n_loads = 0
    /\ tracker = {create_file_id(bundle_key, item_number[t[1]], t[2]) : t \in {u \in Targets : format_status[u[1]][u[2]]}}
    /\ side_effect = << >>
    /\ call_args_list = << >>
    /\ error = [w \in Workers |-> NoError]
    /\ notified = [w \in Workers |-> << >>]
    /\ t_args = [w \in Workers |-> NoArgs]
    /\ w_bundle = [w \in Workers |-> NoBundle]
    /\ n_mark_downloaded = [w \in Workers |-> 0]
    /\ NoThreads

\* no download_format worker has been started
NoRequests ==
    /\ pc = [w \in Workers |-> "idle"]
    /\ w_row = [w \in Workers |-> NoRow]
    /\ w_fmt = [w \in Workers |-> NoFormat]
    /\ outcome = [w \in Workers |-> "none"]
    /\ n_mark_completed = [w \in Workers |-> 0]
    /\ blocked = [w \in Workers |-> FALSE]
    /\ before = 0
    /\ solo = FALSE
    /\ error = [w \in Workers |-> NoError]
    /\ notified = [w \in Workers |-> << >>]
    /\ t_args = [w \in Workers |-> NoArgs]
    /\ w_bundle = [w \in Workers |-> NoBundle]
    /\ n_mark_downloaded = [w \in Workers |-> 0]

\* the request the snapshot "before" is taken for (worker indices are
\* interchangeable, so any request can be the observed one)
Observed == CHOOSE w \in Workers : \A v \in Workers : w <= v

\* one of the three flags of an (item, format) is set
Busy(status, queued, downloading, r, f) ==
    Get(status, r, f) \/ Get(queued, r, f) \/ Get(downloading, r, f)

\* bookkeeping of the observations above, done with every step of Spec
Watch ==
    /\ blocked' = [w \in Workers |->
          IF pc'[w] # "guard" THEN FALSE
          ELSE IF pc[w] = "idle"
               THEN Busy(format_status, format_queued, format_downloading, w_row'[w], w_fmt'[w])
          ELSE blocked[w] /\ Busy(format_status', format_queued', format_downloading', w_row[w], w_fmt[w])]
    /\ before' = IF pc'[Observed] = "idle" THEN 0
                 ELSE IF pc[Observed] = "idle" THEN queue.active
                 ELSE before
    /\ solo' = IF pc'[Observed] = "idle" THEN FALSE
               ELSE IF pc[Observed] = "idle" THEN \A v \in Workers \ {Observed} : pc[v] = "idle"
               ELSE solo /\ \A v \in Workers \ {Observed} : (pc[v] = "idle" => pc'[v] = "idle")

\* download_format returns: the worker thread ends
Return(w) ==
    /\ pc' = [pc EXCEPT ![w] = "idle"]
    /\ w_row' = [w_row EXCEPT ![w] = NoRow]
    /\ w_fmt' = [w_fmt EXCEPT ![w] = NoFormat]
    /\ outcome' = [outcome EXCEPT ![w] = "none"]
    /\ n_mark_completed' = [n_mark_completed EXCEPT ![w] = 0]
    /\ error' = [error EXCEPT ![w] = NoError]
    /\ notified' = [notified EXCEPT ![w] = << >>]
    /\ t_args' = [t_args EXCEPT ![w] = NoArgs]
    /\ w_bundle' = [w_bundle EXCEPT ![w] = NoBundle]
    /\ n_mark_downloaded' = [n_mark_downloaded EXCEPT ![w] = 0]

\* action_cycle_format on the UI thread
CycleFormat(r) ==
    /\ selected_format' = [selected_format EXCEPT ![r] = cycle_format(RowFormats[r], @)]
    /\ UNCHANGED <<qvars, format_status, format_queued, format_downloading, wvars>>
    /\ UNCHANGED <<navvars, envvars, reqvars>>
    /\ Watch
    /\ UNCHANGED <<lockvars, timervars>>

\* download_format, first part: a worker thread starts for row r, reads
\* item_row.selected_format and tests "is None" and format_downloading.
GuardDownloading(w, r) ==
    /\ pc[w] = "idle"
    /\ LET fmt == selected_format[r]
       IN  IF fmt = NoFormat \/ Get(format_downloading, r, fmt)
           THEN UNCHANGED <<pc, w_row, w_fmt, w_bundle>>
           ELSE /\ pc' = [pc EXCEPT ![w] = "guard"]
                /\ w_row' = [w_row EXCEPT ![w] = r]
                /\ w_fmt' = [w_fmt EXCEPT ![w] = fmt]
                /\ w_bundle' = [w_bundle EXCEPT ![w] = bundle_key]
    /\ UNCHANGED <<qvars, rowvars, outcome, n_mark_completed>>
    /\ UNCHANGED <<navvars, envvars, error, notified, t_args, n_mark_downloaded>>
    /\ Watch
    /\ UNCHANGED <<lockvars, timervars>>

\* download_format, the remaining early returns: format_queued, format_status
GuardQueuedStatus(w) ==
    /\ pc[w] = "guard"
    /\ IF Get(format_queued, w_row[w], w_fmt[w]) \/ Get(format_status, w_row[w], w_fmt[w])
       THEN Return(w)
       ELSE /\ pc' = [pc EXCEPT ![w] = "queue"]
            /\ UNCHANGED <<w_row, w_fmt, outcome, n_mark_completed, reqvars>>
    /\ UNCHANGED <<qvars, rowvars, navvars, envvars>>
    /\ Watch
    /\ UNCHANGED <<lockvars, timervars>>

\* call_from_thread(_handle_download_queued): runs on the UI thread
HandleDownloadQueued(w) ==
    /\ pc[w] = "queue"
    /\ queue' = mark_queued(queue).q
    /\ format_queued' = Put(format_queued, w_row[w], w_fmt[w], TRUE)
    /\ pc' = [pc EXCEPT ![w] = "acquire"]
    /\ UNCHANGED <<config, built, call, hist, n_queued_calls, format_status, format_downloading,
                   selected_format, w_row, w_fmt, outcome, n_mark_completed>>
    /\ UNCHANGED <<navvars, envvars, reqvars>>
    /\ Watch
    /\ UNCHANGED <<lockvars, timervars>>

\* self._queue.acquire(): blocks until a slot is free
Acquire(w) ==
    /\ pc[w] = "acquire"
    /\ acquire_enabled(queue)
    /\ queue' = acquire_nonblocking(queue).q
    /\ pc' = [pc EXCEPT ![w] = "started"]
    /\ UNCHANGED <<config, built, call, hist, n_queued_calls, rowvars, w_row, w_fmt, outcome,
                   n_mark_completed>>
    /\ UNCHANGED <<navvars, envvars, reqvars>>
    /\ Watch
    /\ UNCHANGED <<lockvars, timervars>>

\* variant of _handle_download_started and of the download_item call after it
\* that read item_row.selected_format again
HandleDownloadStarted_RereadsFormat(w) ==
    /\ pc[w] = "started"
    /\ LET res == mark_started(queue)
       IN  IF res.raised
           THEN /\ pc' = [pc EXCEPT ![w] = "result"]
                /\ outcome' = [outcome EXCEPT ![w] = "raise"]
                /\ error' = [error EXCEPT ![w] = Raised("RuntimeError")]
                /\ UNCHANGED <<queue, format_queued, format_downloading, t_args>>
           ELSE /\ queue' = res.q
                /\ format_queued' = Put(format_queued, w_row[w], selected_format[w_row[w]], FALSE)
                /\ format_downloading' = Put(format_downloading, w_row[w], selected_format[w_row[w]], TRUE)
                /\ pc' = [pc EXCEPT ![w] = "transfer"]
                /\ t_args' = [t_args EXCEPT ![w] = [bundle_key |-> bundle_key,
                                                    item_number |-> item_number[w_row[w]],
                                                    format_name |-> selected_format[w_row[w]]]]
                /\ UNCHANGED <<outcome, error>>
    /\ UNCHANGED <<config, built, call, hist, n_queued_calls, format_status, selected_format,
                   w_row, w_fmt, n_mark_completed>>
    /\ UNCHANGED <<navvars, envvars, notified, w_bundle, n_mark_downloaded>>
    /\ Watch
    /\ UNCHANGED <<lockvars, timervars>>

\* variant of _handle_download_started that shows every format of the row as
\* downloading
HandleDownloadStarted_WholeRow(w) ==
    /\ pc[w] = "started"
    /\ LET res == mark_started(queue)
       IN  IF res.raised
           THEN /\ pc' = [pc EXCEPT ![w] = "result"]
                /\ outcome' = [outcome EXCEPT ![w] = "raise"]
                /\ error' = [error EXCEPT ![w] = Raised("RuntimeError")]
                /\ UNCHANGED <<queue, format_queued, format_downloading, t_args>>
           ELSE /\ queue' = res.q
                /\ format_queued' = Put(format_queued, w_row[w], w_fmt[w], FALSE)
                /\ format_downloading' = [format_downloading EXCEPT ![w_row[w]] = [f \in DOMAIN @ |-> TRUE]]
                /\ pc' = [pc EXCEPT ![w] = "transfer"]
                /\ t_args' = [t_args EXCEPT ![w] = [bundle_key |-> bundle_key,
                                                    item_number |-> item_number[w_row[w]],
                                                    format_name |-> w_fmt[w]]]
                /\ UNCHANGED <<outcome, error>>
    /\ UNCHANGED <<config, built, call, hist, n_queued_calls, format_status, selected_format,
                   w_row, w_fmt, n_mark_completed>>
    /\ UNCHANGED <<navvars, envvars, notified, w_bundle, n_mark_downloaded>>
    /\ Watch
    /\ UNCHANGED <<lockvars, timervars>>

\* call_from_thread(_handle_download_started): a RuntimeError of mark_started
\* comes back to the worker and is caught by "except Exception"; otherwise the
\* worker goes on to call download_item with self.bundle_key,
\* item_row.item_number and selected_format
HandleDownloadStarted(w) ==
    /\ pc[w] = "started"
    /\ LET res == mark_started(queue)
       IN  IF res.raised
           THEN /\ pc' = [pc EXCEPT ![w] = "result"]
                /\ outcome' = [outcome EXCEPT ![w] = "raise"]
                /\ error' = [error EXCEPT ![w] = Raised("RuntimeError")]
                /\ UNCHANGED <<queue, format_queued, format_downloading, t_args>>
           ELSE /\ queue' = res.q
                /\ format_queued' = Put(format_queued, w_row[w], w_fmt[w], FALSE)
                /\ format_downloading' = Put(format_downloading, w_row[w], w_fmt[w], TRUE)
                /\ pc' = [pc EXCEPT ![w] = "transfer"]
                /\ t_args' = [t_args EXCEPT ![w] = [bundle_key |-> bundle_key,
                                                    item_number |-> item_number[w_row[w]],
                                                    format_name |-> w_fmt[w]]]
                /\ UNCHANGED <<outcome, error>>
    /\ UNCHANGED <<config, built, call, hist, n_queued_calls, format_status, selected_format,
                   w_row, w_fmt, n_mark_completed>>
    /\ UNCHANGED <<navvars, envvars, notified, w_bundle, n_mark_downloaded>>
    /\ Watch
    /\ UNCHANGED <<lockvars, timervars>>

\* variant of download_item that marks the file whatever the transfer returned
download_item_MarksAlways(w, o) ==
    /\ pc[w] = "transfer"
    /\ outcome' = [outcome EXCEPT ![w] = IF o \in {"true", "false"} THEN o ELSE "raise"]
    /\ error' = [error EXCEPT ![w] = IF o \in {"true", "false"} THEN NoError
                                     ELSE Wrapped(IF o = "raise" THEN "Exception" ELSE o)]
    /\ tracker' = IF o \in {"true", "false"}
                  THEN tracker \cup {create_file_id(t_args[w].bundle_key, t_args[w].item_number,
                                                    t_args[w].format_name)}
                  ELSE tracker
    /\ n_mark_downloaded' = [n_mark_downloaded EXCEPT ![w] = IF o \in {"true", "false"} THEN @ + 1 ELSE @]
    /\ pc' = [pc EXCEPT ![w] = "result"]
    /\ UNCHANGED <<qvars, rowvars, w_row, w_fmt, n_mark_completed>>
    /\ UNCHANGED <<navvars, notified, t_args, w_bundle>>
    /\ Watch
    /\ UNCHANGED <<lockvars, timervars>>

\* download_manager.download_item ends: it returns True after marking the file
\* in the tracker, returns False, or raises ("raise": some Exception); the
\* worker wraps the exception as the inner try of download_format does
download_item(w, o) ==
    /\ pc[w] = "transfer"
    /\ outcome' = [outcome EXCEPT ![w] = IF o \in {"true", "false"} THEN o ELSE "raise"]
    /\ error' = [error EXCEPT ![w] = IF o \in {"true", "false"} THEN NoError
                                     ELSE Wrapped(IF o = "raise" THEN "Exception" ELSE o)]
    /\ tracker' = IF o = "true"
                  THEN tracker \cup {create_file_id(t_args[w].bundle_key, t_args[w].item_number,
                                                    t_args[w].format_name)}
                  ELSE tracker
    /\ n_mark_downloaded' = [n_mark_downloaded EXCEPT ![w] = IF o = "true" THEN @ + 1 ELSE @]
    /\ pc' = [pc EXCEPT ![w] = "result"]
    /\ UNCHANGED <<qvars, rowvars, w_row, w_fmt, n_mark_completed>>
    /\ UNCHANGED <<navvars, notified, t_args, w_bundle>>
    /\ Watch
    /\ UNCHANGED <<lockvars, timervars>>

\* download_manager.download_item returns True, returns False or raises
Transfer(w, o) ==
    /\ download_item(w, o)
    /\ UNCHANGED <<side_effect, call_args_list>>

\* variant of _handle_download_success that marks every format of the row
HandleDownloadSuccess_WholeRow(w) ==
    /\ pc[w] = "result"
    /\ outcome[w] = "true"
    /\ format_status' = [format_status EXCEPT ![w_row[w]] = [f \in DOMAIN @ |-> TRUE]]
    /\ format_downloading' = Put(format_downloading, w_row[w], w_fmt[w], FALSE)
    /\ notified' = [notified EXCEPT ![w] = Append(@, "Downloaded")]
    /\ pc' = [pc EXCEPT ![w] = "cleanup"]
    /\ UNCHANGED <<qvars, format_queued, selected_format, w_row, w_fmt, outcome,
                   n_mark_completed>>
    /\ UNCHANGED <<navvars, envvars, error, t_args, w_bundle, n_mark_downloaded>>
    /\ Watch
    /\ timers' = [timers EXCEPT ![w_row[w]] = @ + 1]
    /\ UNCHANGED lockvars

\* call_from_thread(_handle_download_success); set_timer schedules
\* maybe_remove_item(item_row)
HandleDownloadSuccess(w) ==
    /\ pc[w] = "result"
    /\ outcome[w] = "true"
    /\ format_status' = Put(format_status, w_row[w], w_fmt[w], TRUE)
    /\ format_downloading' = Put(format_downloading, w_row[w], w_fmt[w], FALSE)
    /\ notified' = [notified EXCEPT ![w] = Append(@, "Downloaded")]
    /\ pc' = [pc EXCEPT ![w] = "cleanup"]
    /\ UNCHANGED <<qvars, format_queued, selected_format, w_row, w_fmt, outcome,
                   n_mark_completed>>
    /\ UNCHANGED <<navvars, envvars, error, t_args, w_bundle, n_mark_downloaded>>
    /\ Watch
    /\ timers' = [timers EXCEPT ![w_row[w]] = @ + 1]
    /\ UNCHANGED lockvars

\* variant of _handle_download_failure that leaves the downloading flag set
HandleDownloadFailure_KeepsFlag(w) ==
    /\ pc[w] = "result"
    /\ outcome[w] = "false"
    /\ notified' = [notified EXCEPT ![w] = Append(@, "Failed")]
    /\ pc' = [pc EXCEPT ![w] = "cleanup"]
    /\ UNCHANGED <<qvars, rowvars, w_row, w_fmt, outcome, n_mark_completed>>
    /\ UNCHANGED <<navvars, envvars, error, t_args, w_bundle, n_mark_downloaded>>
    /\ Watch
    /\ UNCHANGED <<lockvars, timervars>>

\* variant of _handle_download_failure that marks the format as downloaded
HandleDownloadFailure_MarksDownloaded(w) ==
    /\ pc[w] = "result"
    /\ outcome[w] = "false"
    /\ format_status' = Put(format_status, w_row[w], w_fmt[w], TRUE)
    /\ format_downloading' = Put(format_downloading, w_row[w], w_fmt[w], FALSE)
    /\ notified' = [notified EXCEPT ![w] = Append(@, "Failed")]
    /\ pc' = [pc EXCEPT ![w] = "cleanup"]
    /\ UNCHANGED <<qvars, format_queued, selected_format, w_row, w_fmt, outcome, n_mark_completed>>
    /\ UNCHANGED <<navvars, envvars, error, t_args, w_bundle, n_mark_downloaded>>
    /\ Watch
    /\ UNCHANGED <<lockvars, timervars>>

\* call_from_thread(_handle_download_failure)
HandleDownloadFailure(w) ==
    /\ pc[w] = "result"
    /\ outcome[w] = "false"
    /\ format_downloading' = Put(format_downloading, w_row[w], w_fmt[w], FALSE)
    /\ notified' = [notified EXCEPT ![w] = Append(@, "Failed")]
    /\ pc' = [pc EXCEPT ![w] = "cleanup"]
    /\ UNCHANGED <<qvars, format_status, format_queued, selected_format, w_row, w_fmt,
                   outcome, n_mark_completed>>
    /\ UNCHANGED <<navvars, envvars, error, t_args, w_bundle, n_mark_downloaded>>
    /\ Watch
    /\ UNCHANGED <<lockvars, timervars>>

\* variant of _handle_download_error that resets the row's format_status
HandleDownloadError_ResetsRow(w) ==
    /\ pc[w] = "result"
    /\ outcome[w] = "raise"
    /\ format_status' = [format_status EXCEPT ![w_row[w]] = [f \in DOMAIN @ |-> FALSE]]
    /\ format_downloading' = Put(format_downloading, w_row[w], w_fmt[w], FALSE)
    /\ notified' = [notified EXCEPT ![w] = Append(@, error_msg(error[w]))]
    /\ error' = [error EXCEPT ![w] = NoError]
    /\ pc' = [pc EXCEPT ![w] = "cleanup"]
    /\ UNCHANGED <<qvars, format_queued, selected_format, w_row, w_fmt, outcome, n_mark_completed>>
    /\ UNCHANGED <<navvars, envvars, t_args, w_bundle, n_mark_downloaded>>
    /\ Watch
    /\ UNCHANGED <<lockvars, timervars>>

\* variant of the error path whose cleanup is not in a finally block: after
\* _handle_download_error the worker goes straight to release()
HandleDownloadError_NoCleanup(w) ==
    /\ pc[w] = "result"
    /\ outcome[w] = "raise"
    /\ format_downloading' = Put(format_downloading, w_row[w], w_fmt[w], FALSE)
    /\ notified' = [notified EXCEPT ![w] = Append(@, error_msg(error[w]))]
    /\ error' = [error EXCEPT ![w] = NoError]
    /\ pc' = [pc EXCEPT ![w] = "release"]
    /\ UNCHANGED <<qvars, format_status, format_queued, selected_format, w_row, w_fmt,
                   outcome, n_mark_completed>>
    /\ UNCHANGED <<navvars, envvars, t_args, w_bundle, n_mark_downloaded>>
    /\ Watch
    /\ UNCHANGED <<lockvars, timervars>>

\* call_from_thread(_handle_download_error) in "except Exception"; the
\* exception variable is gone when the except block ends
HandleDownloadError(w) ==
    /\ pc[w] = "result"
    /\ outcome[w] = "raise"
    /\ format_downloading' = Put(format_downloading, w_row[w], w_fmt[w], FALSE)
    /\ notified' = [notified EXCEPT ![w] = Append(@, error_msg(error[w]))]
    /\ error' = [error EXCEPT ![w] = NoError]
    /\ pc' = [pc EXCEPT ![w] = "cleanup"]
    /\ UNCHANGED <<qvars, format_status, format_queued, selected_format, w_row, w_fmt,
                   outcome, n_mark_completed>>
    /\ UNCHANGED <<navvars, envvars, t_args, w_bundle, n_mark_downloaded>>
    /\ Watch
    /\ UNCHANGED <<lockvars, timervars>>

\* variant of _handle_download_cleanup that does not call mark_completed
HandleDownloadCleanup_NoMarkCompleted(w) ==
    /\ pc[w] = "cleanup"
    /\ pc' = [pc EXCEPT ![w] = "release"]
    /\ UNCHANGED <<w_row, w_fmt, outcome, n_mark_completed, reqvars>>
    /\ UNCHANGED <<qvars, rowvars, navvars, envvars>>
    /\ Watch
    /\ UNCHANGED <<lockvars, timervars>>

\* finally: call_from_thread(_handle_download_cleanup); a RuntimeError of
\* mark_completed leaves the finally block before release() and ends the worker
HandleDownloadCleanup(w) ==
    /\ pc[w] = "cleanup"
    /\ LET res == mark_completed(queue)
       IN  IF res.raised
           THEN /\ Return(w)
                /\ UNCHANGED queue
           ELSE /\ queue' = res.q
                /\ n_mark_completed' = [n_mark_completed EXCEPT ![w] = @ + 1]
                /\ pc' = [pc EXCEPT ![w] = "release"]
                /\ UNCHANGED <<w_row, w_fmt, outcome, reqvars>>
    /\ UNCHANGED <<config, built, call, hist, n_queued_calls, rowvars, navvars, envvars>>
    /\ Watch
    /\ UNCHANGED <<lockvars, timervars>>

\* variant of maybe_remove_item that removes the row whatever its formats are
maybe_remove_item_Unconditional(r) ==
    /\ r \in DOMAIN timers
    /\ timers[r] > 0
    /\ timers' = [timers EXCEPT ![r] = @ - 1]
    /\ items_list' = items_list \ {r}
    /\ UNCHANGED <<qvars, rowvars, pc, w_row, w_fmt, outcome, n_mark_completed>>
    /\ UNCHANGED <<formats, item_number, bundle_key, current_screen, loading, n_loads>>
    /\ UNCHANGED <<envvars, reqvars, lockvars>>
    /\ Watch

\* a removal timer of the row fires: maybe_remove_item(item_row) removes the
\* row from the list when all its formats are downloaded (removing a row
\* that is no longer in the list removes nothing)
maybe_remove_item(r) ==
    /\ r \in DOMAIN timers
    /\ timers[r] > 0
    /\ timers' = [timers EXCEPT ![r] = @ - 1]
    /\ items_list' = IF all_formats_downloaded(formats[r], format_status[r])
                     THEN items_list \ {r}
                     ELSE items_list
    /\ UNCHANGED <<qvars, rowvars, pc, w_row, w_fmt, outcome, n_mark_completed>>
    /\ UNCHANGED <<formats, item_number, bundle_key, current_screen, loading, n_loads>>
    /\ UNCHANGED <<envvars, reqvars, lockvars>>
    /\ Watch

\* finally: self._queue.release(), the last statement of download_format
Release(w) ==
    /\ pc[w] = "release"
    /\ queue' = release(queue)
    /\ Return(w)
    /\ UNCHANGED <<config, built, call, hist, n_queued_calls, rowvars, navvars, envvars>>
    /\ Watch
    /\ UNCHANGED <<lockvars, timervars>>

Next ==
    \/ \E r \in Rows : CycleFormat(r)
    \/ \E w \in Workers, r \in Rows : GuardDownloading(w, r)
    \/ \E w \in Workers : GuardQueuedStatus(w)
    \/ \E w \in Workers : HandleDownloadQueued(w)
    \/ \E w \in Workers : Acquire(w)
    \/ \E w \in Workers : HandleDownloadStarted(w)
    \/ \E w \in Workers, o \in Outcomes : Transfer(w, o)
    \/ \E w \in Workers : HandleDownloadSuccess(w)
    \/ \E w \in Workers : HandleDownloadFailure(w)
    \/ \E w \in Workers : HandleDownloadError(w)
    \/ \E w \in Workers : HandleDownloadCleanup(w)
    \/ \E w \in Workers : Release(w)
    \/ \E r \in Rows : maybe_remove_item(r)

Spec == Init /\ [][Next]_vars

\* the steps of a download_format worker other than acquire(): statements of
\* its thread, a download_item call that ends, and call_from_thread callbacks
\* the UI thread serves
WorkerStep(w) ==
    \/ GuardQueuedStatus(w)
    \/ HandleDownloadQueued(w)
    \/ HandleDownloadStarted(w)
    \/ \E o \in Outcomes : Transfer(w, o)
    \/ HandleDownloadSuccess(w)
    \/ HandleDownloadFailure(w)
    \/ HandleDownloadError(w)
    \/ HandleDownloadCleanup(w)
    \/ Release(w)

\* every worker thread runs, every transfer ends and the UI thread serves the
\* callbacks (weak fairness of WorkerStep); a worker blocked in
\* self._queue.acquire() gets a slot when slots are released again and again
\* (strong fairness of Acquire: release() wakes the longest waiter of the
\* semaphore, which takes the slot before requests the user has yet to submit;
\* with weak fairness alone, requests submitted later could take every slot
\* that is released)
SpecLive ==
    Spec /\ \A w \in Workers : WF_vars(WorkerStep(w)) /\ SF_vars(Acquire(w))

\* ------------------------------------- the exceptions of the transfer (SpecErrors)

\* the screen of Spec with a download_item that raises any of the exceptions
\* download_format distinguishes
TransferRaises(w, e) ==
    /\ download_item(w, e)
    /\ UNCHANGED <<side_effect, call_args_list>>

NextErrors ==
    \/ Next
    \/ \E w \in Workers, e \in Exceptions : TransferRaises(w, e)

SpecErrors == Init /\ [][NextErrors]_vars

\* ------------------------------- one request after another (SpecRetry)

\* most transfers a scripted download_item answers
MaxAttempts == 2

\* the scripts of results: Mock(side_effect=[False, True]), ...
Scripts == UNION {[1..n -> Outcomes] : n \in 1..MaxAttempts}

\* the screen of Spec, its download_item replaced by a scripted one
InitRetry ==
    /\ \E n \in MinConcurrent..MaxSlots : queue = BundleDetailsScreenInit(AppConfigInit(n, MinNotificationDuration, MinItemRemovalDelay).c).q
    /\ config = NoConfig
    /\ built = "ok"
    /\ call = NoCall
    /\ hist = << >>
    /\ n_queued_calls = 0
    /\ \E is_downloaded \in [Targets -> BOOLEAN] :
           format_status = [r \in Rows |-> [f \in FormatsOf(r) |-> is_downloaded[<<r, f>>]]]
    /\ format_queued = [r \in Rows |-> [f \in FormatsOf(r) |-> FALSE]]
    /\ format_downloading = [r \in Rows |-> [f \in FormatsOf(r) |-> FALSE]]
    /\ selected_format = [r \in Rows |-> InitialSelected(r)]
    /\ NoRequests
    /\ formats = [r \in Rows |-> RowFormats[r]]
    /\ item_number = [r \in Rows |-> r]
    /\ items_list = Rows
    /\ bundle_key = "bundle_a"
    /\ current_screen = "details"
    /\ loading = FALSE
    /\ n_loads = 0
    /\ tracker = {create_file_id(bundle_key, item_number[t[1]], t[2]) : t \in {u \in Targets : format_status[u[1]][u[2]]}}
    /\ side_effect \in Scripts
    /\ call_args_list = << >>
    /\ NoThreads

\* download_item answers with the next result of the script
TransferScripted(w) ==
    /\ side_effect # << >>
    /\ download_item(w, Head(side_effect))
    /\ side_effect' = Tail(side_effect)
    /\ call_args_list' = Append(call_args_list, [args |-> t_args[w], result |-> Head(side_effect)])

\* the user starts a request only when the previous one has ended
NextRetry ==
    \/ \E r \in Rows : CycleFormat(r)
    \/ \E r \in Rows : GuardDownloading(Observed, r)
    \/ GuardQueuedStatus(Observed)
    \/ HandleDownloadQueued(Observed)
    \/ Acquire(Observed)
    \/ HandleDownloadStarted(Observed)
    \/ TransferScripted(Observed)
    \/ HandleDownloadSuccess(Observed)
    \/ HandleDownloadFailure(Observed)
    \/ HandleDownloadError(Observed)
    \/ HandleDownloadCleanup(Observed)
    \/ Release(Observed)

SpecRetry == InitRetry /\ [][NextRetry]_vars

\* the worker thread runs and the UI thread serves call_from_thread: a request
\* that can take its next step up to the call of download_item takes it
RetryProgress ==
    \/ GuardQueuedStatus(Observed)
    \/ HandleDownloadQueued(Observed)
    \/ Acquire(Observed)
    \/ HandleDownloadStarted(Observed)

SpecRetryFair == SpecRetry /\ WF_vars(RetryProgress)

\* ------------------------------------ leaving and opening bundles (SpecNav)

\* most times load_details rebuilds the rows
MaxLoads == 1

\* the item a row object shows, and the row objects the n-th load_details
\* creates (every bundle has the items of RowFormats)
ItemOf(r) == ((r - 1) % Len(RowFormats)) + 1
NewRows(n) == {n * Len(RowFormats) + i : i \in Rows}
AllRows == UNION {NewRows(n) : n \in 0..MaxLoads}

\* HumbleBundleTUI.on_go_back: ESC on the details screen
on_go_back ==
    /\ current_screen = "details"
    /\ current_screen' = "list"
    /\ UNCHANGED <<qvars, rowvars, pc, w_row, w_fmt, outcome, n_mark_completed>>
    /\ UNCHANGED <<formats, item_number, items_list, bundle_key, loading, n_loads, envvars, reqvars>>
    /\ Watch
    /\ UNCHANGED <<lockvars, timervars>>

\* HumbleBundleTUI.on_bundle_selected and BundleDetailsScreen.load_bundle:
\* self.bundle_key is overwritten and a load_details worker is started
on_bundle_selected(b) ==
    /\ current_screen = "list"
    /\ n_loads < MaxLoads
    /\ bundle_key' = b
    /\ loading' = TRUE
    /\ current_screen' = "details"
    /\ UNCHANGED <<qvars, rowvars, pc, w_row, w_fmt, outcome, n_mark_completed>>
    /\ UNCHANGED <<formats, item_number, items_list, n_loads, envvars, reqvars>>
    /\ Watch
    /\ UNCHANGED <<lockvars, timervars>>

\* BundleDetailsScreen.load_details: list_view.clear(), then one new
\* ItemFormatRow per item with the tracker's format_status and empty
\* format_queued / format_downloading; the old row objects live on in the
\* workers that hold them
load_details ==
    /\ loading
    /\ LET new == NewRows(n_loads + 1)
       IN  /\ items_list' = new
           /\ formats' = [r \in new |-> RowFormats[ItemOf(r)]] @@ formats
           /\ item_number' = [r \in new |-> ItemOf(r)] @@ item_number
           /\ format_status' =
                  [r \in new |-> [f \in FormatsOf(ItemOf(r)) |->
                                     create_file_id(bundle_key, ItemOf(r), f) \in tracker]] @@ format_status
           /\ format_queued' = [r \in new |-> [f \in FormatsOf(ItemOf(r)) |-> FALSE]] @@ format_queued
           /\ format_downloading' = [r \in new |-> [f \in FormatsOf(ItemOf(r)) |-> FALSE]] @@ format_downloading
           /\ selected_format' = [r \in new |-> InitialSelected(ItemOf(r))] @@ selected_format
    /\ loading' = FALSE
    /\ n_loads' = n_loads + 1
    /\ UNCHANGED <<qvars, pc, w_row, w_fmt, outcome, n_mark_completed>>
    /\ UNCHANGED <<bundle_key, current_screen, envvars, reqvars>>
    /\ Watch
    /\ timers' = [r \in NewRows(n_loads + 1) |-> 0] @@ timers
    /\ UNCHANGED lockvars

\* BundleDetailsScreen.download_selected_item: Enter on a row of the list
download_selected_item(w, r) ==
    /\ current_screen = "details"
    /\ r \in items_list
    /\ GuardDownloading(w, r)

NextNav ==
    \/ on_go_back
    \/ \E b \in Bundles : on_bundle_selected(b)
    \/ load_details
    \/ \E w \in Workers, r \in AllRows : download_selected_item(w, r)
    \/ \E w \in Workers : GuardQueuedStatus(w)
    \/ \E w \in Workers : HandleDownloadQueued(w)
    \/ \E w \in Workers : Acquire(w)
    \/ \E w \in Workers : HandleDownloadStarted(w)
    \/ \E w \in Workers, o \in Outcomes : Transfer(w, o)
    \/ \E w \in Workers : HandleDownloadSuccess(w)
    \/ \E w \in Workers : HandleDownloadFailure(w)
    \/ \E w \in Workers : HandleDownloadError(w)
    \/ \E w \in Workers : HandleDownloadCleanup(w)
    \/ \E w \in Workers : Release(w)
    \/ \E r \in AllRows : maybe_remove_item(r)

SpecNav == Init /\ [][NextNav]_vars

\* ------------------------------- UI updates that fail (SpecFaults)

\* _handle_download_started: mark_started() and the flags are done, then
\* update_display() or update_download_counter() raises; call_from_thread
\* re-raises in the worker, inside the try block
HandleDownloadStartedRaises(w) ==
    /\ pc[w] = "started"
    /\ ~mark_started(queue).raised
    /\ queue' = mark_started(queue).q
    /\ format_queued' = Put(format_queued, w_row[w], w_fmt[w], FALSE)
    /\ format_downloading' = Put(format_downloading, w_row[w], w_fmt[w], TRUE)
    /\ pc' = [pc EXCEPT ![w] = "result"]
    /\ outcome' = [outcome EXCEPT ![w] = "raise"]
    /\ error' = [error EXCEPT ![w] = Raised("Exception")]
    /\ UNCHANGED <<config, built, call, hist, n_queued_calls, format_status, selected_format,
                   w_row, w_fmt, n_mark_completed>>
    /\ UNCHANGED <<navvars, envvars, notified, t_args, w_bundle, n_mark_downloaded>>
    /\ Watch
    /\ UNCHANGED <<lockvars, timervars>>

\* _handle_download_cleanup: mark_completed() is done, then
\* update_download_counter() raises; call_from_thread re-raises in the finally
\* block, which is left before self._queue.release(): the worker ends
HandleDownloadCleanupRaises(w) ==
    /\ pc[w] = "cleanup"
    /\ ~mark_completed(queue).raised
    /\ queue' = mark_completed(queue).q
    /\ Return(w)
    /\ UNCHANGED <<config, built, call, hist, n_queued_calls, rowvars, navvars, envvars>>
    /\ Watch
    /\ UNCHANGED <<lockvars, timervars>>

NextFaults ==
    \/ Next
    \/ \E w \in Workers : HandleDownloadStartedRaises(w)
    \/ \E w \in Workers : HandleDownloadCleanupRaises(w)

SpecFaults == Init /\ [][NextFaults]_vars

\* ------------------------------------------------ a client of the queue API

\* the integers the constructors are called with
Args == (MinConcurrent - ArgSpan)..(MaxConcurrentLimit + ArgSpan)
DurationArgs == (MinNotificationDuration - ArgSpan)..MinNotificationDuration
DelayArgs == (MinItemRemovalDelay - ArgSpan)..MinItemRemovalDelay

Called(op, args, ret) == [op |-> op, args |-> args, ret |-> ret, stats |-> NoStats]

InitQueue ==
    /\ queue = NoQueue
    /\ config = NoConfig
    /\ built = "none"
    /\ call = NoCall
    /\ hist = << >>
    /\ n_queued_calls = 0
    /\ format_status = [r \in Rows |-> [f \in FormatsOf(r) |-> FALSE]]
    /\ format_queued = [r \in Rows |-> [f \in FormatsOf(r) |-> FALSE]]
    /\ format_downloading = [r \in Rows |-> [f \in FormatsOf(r) |-> FALSE]]
    /\ selected_format = [r \in Rows |-> InitialSelected(r)]
    /\ pc = [w \in Workers |-> "idle"]
    /\ w_row = [w \in Workers |-> NoRow]
    /\ w_fmt = [w \in Workers |-> NoFormat]
    /\ outcome = [w \in Workers |-> "none"]
    /\ n_mark_completed = [w \in Workers |-> 0]
    /\ blocked = [w \in Workers |-> FALSE]
    /\ before = 0
    /\ solo = FALSE
    /\ formats = [r \in Rows |-> RowFormats[r]]
    /\ item_number = [r \in Rows |-> r]
    /\ items_list = {}
    /\ bundle_key = NoBundle
    /\ current_screen = "list"
    /\ loading = FALSE
    /\ n_loads = 0
    /\ tracker = {}
    /\ side_effect = << >>
    /\ call_args_list = << >>
    /\ error = [w \in Workers |-> NoError]
    /\ notified = [w \in Workers |-> << >>]
    /\ t_args = [w \in Workers |-> NoArgs]
    /\ w_bundle = [w \in Workers |-> NoBundle]
    /\ n_mark_downloaded = [w \in Workers |-> 0]
    /\ NoThreads

\* DownloadQueue(max_concurrent=n)
NewDownloadQueue(n) ==
    /\ built = "none"
    /\ LET res == DownloadQueueInit(n)
       IN  /\ queue' = res.q
           /\ built' = IF res.raised THEN "ValueError" ELSE "ok"
           /\ call' = Called("DownloadQueue", <<n>>, IF res.raised THEN "ValueError" ELSE "ok")
    /\ UNCHANGED <<config, hist, n_queued_calls, rowvars, wvars, navvars, envvars, reqvars>>
    /\ UNCHANGED <<lockvars, timervars>>

\* AppConfig(max_concurrent_downloads=mcd, notification_duration=nd, item_removal_delay=ird)
NewAppConfig(mcd, nd, ird) ==
    /\ built = "none"
    /\ LET res == AppConfigInit(mcd, nd, ird)
       IN  /\ config' = res.c
           /\ built' = IF res.raised THEN "ValueError" ELSE "config"
           /\ call' = Called("AppConfig", <<mcd, nd, ird>>, IF res.raised THEN "ValueError" ELSE "ok")
    /\ UNCHANGED <<queue, hist, n_queued_calls, rowvars, wvars, navvars, envvars, reqvars>>
    /\ UNCHANGED <<lockvars, timervars>>

\* BundleDetailsScreen(download_manager, config)
NewBundleDetailsScreen ==
    /\ built = "config"
    /\ LET res == BundleDetailsScreenInit(config)
       IN  /\ queue' = res.q
           /\ built' = IF res.raised THEN "ValueError" ELSE "ok"
           /\ call' = Called("BundleDetailsScreen", << >>, IF res.raised THEN "ValueError" ELSE "ok")
    /\ UNCHANGED <<config, hist, n_queued_calls, rowvars, wvars, navvars, envvars, reqvars>>
    /\ UNCHANGED <<lockvars, timervars>>

\* queue.mark_queued()
CallMarkQueued ==
    /\ built = "ok"
    /\ n_queued_calls < MaxMarks
    /\ queue' = mark_queued(queue).q
    /\ n_queued_calls' = n_queued_calls + 1
    /\ call' = Called("mark_queued", << >>, "None")
    /\ UNCHANGED <<config, built, hist, rowvars, wvars, navvars, envvars, reqvars>>
    /\ UNCHANGED <<lockvars, timervars>>

\* queue.mark_started()
CallMarkStarted ==
    /\ built = "ok"
    /\ LET res == mark_started(queue)
       IN  /\ queue' = res.q
           /\ call' = Called("mark_started", << >>, IF res.raised THEN "RuntimeError" ELSE "None")
    /\ UNCHANGED <<config, built, hist, n_queued_calls, rowvars, wvars, navvars, envvars, reqvars>>
    /\ UNCHANGED <<lockvars, timervars>>

\* queue.mark_completed()
CallMarkCompleted ==
    /\ built = "ok"
    /\ LET res == mark_completed(queue)
       IN  /\ queue' = res.q
           /\ call' = Called("mark_completed", << >>, IF res.raised THEN "RuntimeError" ELSE "None")
    /\ UNCHANGED <<config, built, hist, n_queued_calls, rowvars, wvars, navvars, envvars, reqvars>>
    /\ UNCHANGED <<lockvars, timervars>>

\* queue.acquire(blocking=False)
CallAcquire ==
    /\ built = "ok"
    /\ Len(hist) < MaxHist
    /\ LET res == acquire_nonblocking(queue)
           ret == IF res.ret THEN "True" ELSE "False"
       IN  /\ queue' = res.q
           /\ call' = Called("acquire", << >>, ret)
           /\ hist' = Append(hist, ret)
    /\ UNCHANGED <<config, built, n_queued_calls, rowvars, wvars, navvars, envvars, reqvars>>
    /\ UNCHANGED <<lockvars, timervars>>

\* queue.release()
CallRelease ==
    /\ built = "ok"
    /\ Len(hist) < MaxHist
    /\ queue' = release(queue)
    /\ call' = Called("release", << >>, "None")
    /\ hist' = Append(hist, "release")
    /\ UNCHANGED <<config, built, n_queued_calls, rowvars, wvars, navvars, envvars, reqvars>>
    /\ UNCHANGED <<lockvars, timervars>>

\* queue.get_stats()
CallGetStats ==
    /\ built = "ok"
    /\ call' = [op |-> "get_stats", args |-> << >>, ret |-> "QueueStats", stats |-> get_stats(queue)]
    /\ UNCHANGED <<queue, config, built, hist, n_queued_calls, rowvars, wvars, navvars, envvars, reqvars>>
    /\ UNCHANGED <<lockvars, timervars>>

NextQueue ==
    \/ \E n \in Args : NewDownloadQueue(n)
    \/ \E mcd \in Args, nd \in DurationArgs, ird \in DelayArgs : NewAppConfig(mcd, nd, ird)
    \/ NewBundleDetailsScreen
    \/ CallMarkQueued
    \/ CallMarkStarted
    \/ CallMarkCompleted
    \/ CallAcquire
    \/ CallRelease
    \/ CallGetStats

SpecQueue == InitQueue /\ [][NextQueue]_vars

\* ------------------------------------- three requests on a queue of limit 2

\* the three download_format workers of the scenario and what each was
\* submitted for: two formats of the first item, one format of the second
ScenarioWorkers == {1, 2, 3}
ScenarioFormats == << <<"EPUB", "PDF">>, <<"EPUB">> >>
ScenarioTargets == << <<1, "EPUB">>, <<1, "PDF">>, <<2, "EPUB">> >>

\* the instant the three worker threads have been started on a screen built
\* with max_concurrent_downloads = 2: each has read its selected_format and
\* found it not downloading; nothing is downloaded, queued or active yet
InitScenario ==
    /\ queue = BundleDetailsScreenInit(AppConfigInit(2, MinNotificationDuration, MinItemRemovalDelay).c).q
    /\ config = NoConfig
    /\ built = "ok"
    /\ call = NoCall
    /\ hist = << >>
    /\ n_queued_calls = 0
    /\ formats = ScenarioFormats
    /\ item_number = [r \in DOMAIN ScenarioFormats |-> r]
    /\ items_list = DOMAIN ScenarioFormats
    /\ format_status = [r \in DOMAIN ScenarioFormats |-> [f \in Range(ScenarioFormats[r]) |-> FALSE]]
    /\ format_queued = [r \in DOMAIN ScenarioFormats |-> [f \in Range(ScenarioFormats[r]) |-> FALSE]]
    /\ format_downloading = [r \in DOMAIN ScenarioFormats |-> [f \in Range(ScenarioFormats[r]) |-> FALSE]]
    /\ selected_format = <<"PDF", "EPUB">>
    /\ pc = [w \in ScenarioWorkers |-> "guard"]
    /\ w_row = [w \in ScenarioWorkers |-> ScenarioTargets[w][1]]
    /\ w_fmt = [w \in ScenarioWorkers |-> ScenarioTargets[w][2]]
    /\ outcome = [w \in ScenarioWorkers |-> "none"]
    /\ n_mark_completed = [w \in ScenarioWorkers |-> 0]
    /\ blocked = [w \in ScenarioWorkers |-> FALSE]
    /\ before = 0
    /\ solo = FALSE
    /\ bundle_key = "bundle_a"
    /\ current_screen = "details"
    /\ loading = FALSE
    /\ n_loads = 0
    /\ tracker = {}
    /\ side_effect = << >>
    /\ call_args_list = << >>
    /\ error = [w \in ScenarioWorkers |-> NoError]
    /\ notified = [w \in ScenarioWorkers |-> << >>]
    /\ t_args = [w \in ScenarioWorkers |-> NoArgs]
    /\ w_bundle = [w \in ScenarioWorkers |-> "bundle_a"]
    /\ n_mark_downloaded = [w \in ScenarioWorkers |-> 0]
    /\ NoThreads

\* the three requests run to their end; nothing else is submitted
NextScenario ==
    \/ \E w \in ScenarioWorkers : GuardQueuedStatus(w)
    \/ \E w \in ScenarioWorkers : HandleDownloadQueued(w)
    \/ \E w \in ScenarioWorkers : Acquire(w)
    \/ \E w \in ScenarioWorkers : HandleDownloadStarted(w)
    \/ \E w \in ScenarioWorkers, o \in Outcomes : Transfer(w, o)
    \/ \E w \in ScenarioWorkers : HandleDownloadSuccess(w)
    \/ \E w \in ScenarioWorkers : HandleDownloadFailure(w)
    \/ \E w \in ScenarioWorkers : HandleDownloadError(w)
    \/ \E w \in ScenarioWorkers : HandleDownloadCleanup(w)
    \/ \E w \in ScenarioWorkers : Release(w)

SpecScenario == InitScenario /\ [][NextScenario]_vars

\* ---------------------------- DownloadQueue called from threads (SpecLock)

\* variant of the lock that lets every thread in
lock_free_Always(l) == TRUE

\* "with self._lock": a thread enters only when no thread is inside
lock_free(l) == l = NoThread

\* the statements each method executes inside "with self._lock":
\* "x -= 1" is a load of the attribute and a store of the new value
Statements(op) ==
    CASE op = "mark_queued" ->
             << <<"load", "queued">>, <<"store", "queued", 1>> >>
      [] op = "mark_started" ->
             << <<"check", "queued">>,
                <<"load", "queued">>, <<"store", "queued", -1>>,
                <<"load", "active">>, <<"store", "active", 1>> >>
      [] op = "mark_completed" ->
             << <<"check", "active">>,
                <<"load", "active">>, <<"store", "active", -1>> >>
      [] op = "get_stats" ->
             << <<"stat", "active">>, <<"stat", "queued">>, <<"stat", "max_concurrent">> >>

QueueMethods == {"mark_queued", "mark_started", "mark_completed", "get_stats"}

\* the statement thread t is about to execute, <<"none">> when it is not inside
\* the with block
Statement(t) ==
    IF t_op[t] \in QueueMethods /\ t_pc[t] \in 1..Len(Statements(t_op[t]))
    THEN Statements(t_op[t])[t_pc[t]]
    ELSE <<"none">>

\* a queue of a valid size; no thread has called it yet
InitLock ==
    /\ \E n \in MinConcurrent..MaxSlots : queue = DownloadQueueInit(n).q
    /\ config = NoConfig
    /\ built = "ok"
    /\ call = NoCall
    /\ hist = << >>
    /\ n_queued_calls = 0
    /\ format_status = [r \in Rows |-> [f \in FormatsOf(r) |-> FALSE]]
    /\ format_queued = [r \in Rows |-> [f \in FormatsOf(r) |-> FALSE]]
    /\ format_downloading = [r \in Rows |-> [f \in FormatsOf(r) |-> FALSE]]
    /\ selected_format = [r \in Rows |-> InitialSelected(r)]
    /\ NoRequests
    /\ formats = [r \in Rows |-> RowFormats[r]]
    /\ item_number = [r \in Rows |-> r]
    /\ items_list = {}
    /\ bundle_key = NoBundle
    /\ current_screen = "list"
    /\ loading = FALSE
    /\ n_loads = 0
    /\ tracker = {}
    /\ side_effect = << >>
    /\ call_args_list = << >>
    /\ NoThreads

\* a thread calls a method of the queue
ThreadCall(t, op) ==
    /\ t_op[t] = "none"
    /\ n_calls < MaxCalls
    /\ t_op' = [t_op EXCEPT ![t] = op]
    /\ t_pc' = [t_pc EXCEPT ![t] = 0]
    /\ t_stats' = [t_stats EXCEPT ![t] = NoStats]
    /\ n_calls' = n_calls + 1
    /\ UNCHANGED <<qvars, rowvars, wvars, navvars, envvars, reqvars, lock, t_tmp, done, timervars>>

\* "with self._lock:" is entered
LockAcquire(t) ==
    /\ t_op[t] \in QueueMethods
    /\ t_pc[t] = 0
    /\ lock_free(lock)
    /\ lock' = t
    /\ t_pc' = [t_pc EXCEPT ![t] = 1]
    /\ UNCHANGED <<qvars, rowvars, wvars, navvars, envvars, reqvars, t_op, t_tmp, t_stats, done, n_calls, timervars>>

\* "if self._queued <= 0: raise RuntimeError" (mark_completed: self._active):
\* the exception leaves the with block, which releases the lock
ThreadCheck(t) ==
    /\ Statement(t)[1] = "check"
    /\ IF queue[Statement(t)[2]] <= 0
       THEN /\ lock' = IF lock = t THEN NoThread ELSE lock
            /\ t_op' = [t_op EXCEPT ![t] = "none"]
            /\ t_pc' = [t_pc EXCEPT ![t] = 0]
       ELSE /\ t_pc' = [t_pc EXCEPT ![t] = @ + 1]
            /\ UNCHANGED <<lock, t_op>>
    /\ UNCHANGED <<qvars, rowvars, wvars, navvars, envvars, reqvars, t_tmp, t_stats, done, n_calls, timervars>>

\* the attribute is loaded
ThreadLoad(t) ==
    /\ Statement(t)[1] = "load"
    /\ t_tmp' = [t_tmp EXCEPT ![t] = queue[Statement(t)[2]]]
    /\ t_pc' = [t_pc EXCEPT ![t] = @ + 1]
    /\ UNCHANGED <<qvars, rowvars, wvars, navvars, envvars, reqvars, lock, t_op, t_stats, done, n_calls, timervars>>

\* the loaded value plus or minus one is stored in the attribute
ThreadStore(t) ==
    /\ Statement(t)[1] = "store"
    /\ queue' = [queue EXCEPT ![Statement(t)[2]] = t_tmp[t] + Statement(t)[3]]
    /\ t_pc' = [t_pc EXCEPT ![t] = @ + 1]
    /\ UNCHANGED <<config, built, call, hist, n_queued_calls, rowvars, wvars, navvars, envvars, reqvars>>
    /\ UNCHANGED <<lock, t_op, t_tmp, t_stats, done, n_calls, timervars>>

\* get_stats evaluates one argument of QueueStats(...)
ThreadStat(t) ==
    /\ Statement(t)[1] = "stat"
    /\ t_stats' = [t_stats EXCEPT ![t][Statement(t)[2]] = queue[Statement(t)[2]]]
    /\ t_pc' = [t_pc EXCEPT ![t] = @ + 1]
    /\ UNCHANGED <<qvars, rowvars, wvars, navvars, envvars, reqvars, lock, t_op, t_tmp, done, n_calls, timervars>>

\* the with block is left and the method returns (get_stats: t_stats[t])
LockRelease(t) ==
    /\ t_op[t] \in QueueMethods
    /\ t_pc[t] = Len(Statements(t_op[t])) + 1
    /\ lock' = IF lock = t THEN NoThread ELSE lock
    /\ done' = IF t_op[t] = "get_stats" THEN done ELSE [done EXCEPT ![t_op[t]] = @ + 1]
    /\ t_op' = [t_op EXCEPT ![t] = "none"]
    /\ t_pc' = [t_pc EXCEPT ![t] = 0]
    /\ UNCHANGED <<qvars, rowvars, wvars, navvars, envvars, reqvars, t_tmp, t_stats, n_calls, timervars>>

NextLock ==
    \/ \E t \in Threads, op \in QueueMethods : ThreadCall(t, op)
    \/ \E t \in Threads : LockAcquire(t)
    \/ \E t \in Threads : ThreadCheck(t)
    \/ \E t \in Threads : ThreadLoad(t)
    \/ \E t \in Threads : ThreadStore(t)
    \/ \E t \in Threads : ThreadStat(t)
    \/ \E t \in Threads : LockRelease(t)

SpecLock == InitLock /\ [][NextLock]_vars

\* ------------------------------------------ the helpers of one row (SpecRow)

\* format names, the lists item["formats"] can be and the str -> bool
\* dictionaries a row can hold (a name may be missing from a dictionary)
FormatNames == {"EPUB", "PDF"}
FormatLists == UNION {[1..n -> FormatNames] : n \in 0..MaxFormats}
FlagDicts == UNION {[D -> BOOLEAN] : D \in SUBSET FormatNames}

\* one ItemFormatRow with any formats and any flag dictionaries
InitRow ==
    /\ queue = NoQueue
    /\ config = NoConfig
    /\ built = "none"
    /\ call = NoCall
    /\ hist = << >>
    /\ n_queued_calls = 0
    /\ formats \in [{1} -> FormatLists]
    /\ item_number = [r \in {1} |-> 1]
    /\ items_list = {1}
    /\ format_status \in [{1} -> FlagDicts]
    /\ format_queued \in [{1} -> FlagDicts]
    /\ format_downloading \in [{1} -> FlagDicts]
    /\ selected_format = [r \in {1} |-> IF Len(formats[r]) > 0 THEN formats[r][1] ELSE NoFormat]
    /\ NoRequests
    /\ bundle_key = "bundle_a"
    /\ current_screen = "details"
    /\ loading = FALSE
    /\ n_loads = 0
    /\ tracker = {}
    /\ side_effect = << >>
    /\ call_args_list = << >>
    /\ NoThreads

\* self._all_formats_downloaded(item_row)
CallAllFormatsDownloaded(r) ==
    /\ call' = Called("_all_formats_downloaded", <<r>>,
                      IF all_formats_downloaded(formats[r], format_status[r]) THEN "True" ELSE "False")
    /\ UNCHANGED <<queue, config, built, hist, n_queued_calls, rowvars, wvars, navvars, envvars, reqvars>>
    /\ UNCHANGED <<lockvars, timervars>>

\* item_row._get_status_indicator(fmt)
CallGetStatusIndicator(r, fmt) ==
    /\ call' = Called("_get_status_indicator", <<r, fmt>>,
                      get_status_indicator(format_queued, format_downloading, format_status, r, fmt))
    /\ UNCHANGED <<queue, config, built, hist, n_queued_calls, rowvars, wvars, navvars, envvars, reqvars>>
    /\ UNCHANGED <<lockvars, timervars>>

NextRow ==
    \/ \E r \in items_list : CallAllFormatsDownloaded(r)
    \/ \E r \in items_list, fmt \in FormatNames \cup {"MOBI"} : CallGetStatusIndicator(r, fmt)

SpecRow == InitRow /\ [][NextRow]_vars

\* ============================================================= claims, Spec

\* program points between a successful acquire() and the end of release()
Holding == {"started", "transfer", "result", "cleanup", "release"}
\* program points of a request that has passed the early returns
Admitted == {"queue", "acquire"} \cup Holding

\* C1: the number of workers between a successful acquire() and their release(),
\* and so the number of transfers running, never exceeds max_concurrent.
C1_SlotsBounded ==
    /\ Cardinality({w \in Workers : pc[w] \in Holding}) <= queue.max_concurrent
    /\ Cardinality({w \in Workers : pc[w] = "transfer"}) <= queue.max_concurrent
    /\ queue.semaphore = queue.max_concurrent - Cardinality({w \in Workers : pc[w] \in Holding})

\* C1 witness: every slot is held and one more worker waits in acquire()
C1_Witness ==
    /\ Cardinality({w \in Workers : pc[w] = "transfer"}) = queue.max_concurrent
    /\ \E w \in Workers : pc[w] = "acquire"

\* C3: every request that passes the early returns executes mark_completed()
\* exactly once and release() exactly once, whatever the transfer's outcome: it
\* ends only by its release(), having completed once before, and no step frees
\* a slot or decrements active otherwise.
C3_CleanupExactlyOnce ==
    [][/\ \A w \in Workers :
            /\ (pc[w] \in Admitted /\ pc'[w] \notin Admitted) =>
                  /\ pc[w] = "release"
                  /\ outcome[w] \in Outcomes
                  /\ n_mark_completed[w] = 1
                  /\ queue'.semaphore = queue.semaphore + 1
            /\ n_mark_completed'[w] <= 1
            /\ n_mark_completed'[w] # n_mark_completed[w] =>
                  \/ pc'[w] = "idle"
                  \/ pc[w] = "cleanup" /\ queue'.active = queue.active - 1
       /\ queue'.semaphore > queue.semaphore =>
            \E w \in Workers : pc[w] = "release" /\ pc'[w] = "idle"
       /\ queue'.active < queue.active =>
            \E w \in Workers : pc[w] = "cleanup" /\ pc'[w] = "release"]_vars

\* C3 witness: a request whose transfer raised has completed and is about to release
C3_Witness ==
    \E w \in Workers : pc[w] = "release" /\ outcome[w] = "raise" /\ n_mark_completed[w] = 1

\* the observed request ends, its transfer having returned False or raised
C4_FailedRequestEnds ==
    pc[Observed] = "release" /\ pc'[Observed] = "idle" /\ outcome[Observed] \in {"false", "raise"}
\* what C4 says of the moment after it
C4_After ==
    /\ ~Get(format_downloading', w_row[Observed], w_fmt[Observed])
    /\ ~Get(format_status', w_row[Observed], w_fmt[Observed])
    /\ ~Get(format_queued', w_row[Observed], w_fmt[Observed])
    /\ n_mark_completed[Observed] = 1
    /\ queue'.semaphore = queue.semaphore + 1
    /\ queue'.active = before

\* C4 (as stated): when the transfer of an admitted request returns False or
\* raises, then after the request the target has downloading = completed =
\* queued = false, one slot has been released and active equals its value before
\* the request was submitted.
C4_FailureRestoresState ==
    [][C4_FailedRequestEnds => C4_After]_vars

\* C4 (amended): the failure / error handler clears downloading for the target
\* and changes neither completed nor queued, and the request decrements active
\* once and releases one slot; if no other request was in flight between its
\* submission and its end, then after it the target has all three flags false
\* and active equals its value before the submission.
C4_FailureRestoresStateWhenAlone ==
    [][/\ (C4_FailedRequestEnds /\ solo) => C4_After
       /\ C4_FailedRequestEnds => n_mark_completed[Observed] = 1 /\ queue'.semaphore = queue.semaphore + 1
       /\ (pc[Observed] = "result" /\ pc'[Observed] # "result" /\ outcome[Observed] \in {"false", "raise"}) =>
             /\ ~Get(format_downloading', w_row[Observed], w_fmt[Observed])
             /\ format_status' = format_status
             /\ format_queued' = format_queued]_vars

\* C4 witness: a request that ran alone and whose transfer returned False is
\* about to end
C4_Witness ==
    pc[Observed] = "release" /\ outcome[Observed] = "false" /\ solo

\* C5: a request submitted for an (item, format) that is completed, queued or
\* downloading (here: at every moment from its start to the end of its early
\* returns) is a no-op: it never passes the early returns, so it changes no
\* counter, slot or flag and invokes no transfer.
C5_DuplicateIsNoOp ==
    [][\A w \in Workers : (pc[w] = "guard" /\ blocked[w]) => pc'[w] \in {"guard", "idle"}]_vars

\* ======================================================== claims, SpecQueue

\* C2 (as stated): for every sequence of mark_queued / mark_started /
\* mark_completed calls, active never exceeds max_concurrent and both counters
\* stay >= 0.
C2_ActiveWithinLimit ==
    queue.live => /\ queue.active <= queue.max_concurrent
                  /\ queue.active >= 0
                  /\ queue.queued >= 0

\* C2 (amended): for every sequence of mark_queued / mark_started /
\* mark_completed calls both counters stay >= 0 and active + queued never
\* exceeds the number of mark_queued calls; the counters alone do not bound
\* active by max_concurrent.
C2_CountersNonNegative ==
    queue.live => /\ queue.active >= 0
                  /\ queue.queued >= 0
                  /\ queue.active + queue.queued <= n_queued_calls

\* C2 witness: more downloads marked active than max_concurrent allows
C2_Witness ==
    queue.live /\ queue.active > queue.max_concurrent /\ call.op = "mark_started"

\* C6: mark_started() with queued == 0 raises RuntimeError and leaves queued and
\* active unchanged; otherwise it moves exactly one download from queued to
\* active in one step.
C6_MarkStarted ==
    [][call'.op = "mark_started" =>
         IF queue.queued = 0
         THEN call'.ret = "RuntimeError" /\ queue' = queue
         ELSE /\ call'.ret = "None"
              /\ queue'.queued = queue.queued - 1
              /\ queue'.active = queue.active + 1
              /\ queue'.semaphore = queue.semaphore
              /\ queue'.max_concurrent = queue.max_concurrent]_vars

\* C6 witness: mark_started() has raised on a queue with nothing queued
C6_Witness ==
    call.op = "mark_started" /\ call.ret = "RuntimeError" /\ queue.queued = 0 /\ queue.active > 0

\* C7: mark_completed() with active == 0 raises RuntimeError and leaves queued
\* and active unchanged; otherwise it decrements active by one and leaves
\* queued unchanged.
C7_MarkCompleted ==
    [][call'.op = "mark_completed" =>
         IF queue.active = 0
         THEN call'.ret = "RuntimeError" /\ queue' = queue
         ELSE /\ call'.ret = "None"
              /\ queue'.active = queue.active - 1
              /\ queue'.queued = queue.queued
              /\ queue'.semaphore = queue.semaphore
              /\ queue'.max_concurrent = queue.max_concurrent]_vars

\* C7 witness: mark_completed() has raised on a queue with nothing active
C7_Witness ==
    call.op = "mark_completed" /\ call.ret = "RuntimeError" /\ queue.active = 0 /\ queue.queued > 0

\* the results the scenario of C8 prescribes on a queue of limit n:
\* n acquires succeed, one fails, a release, one acquire succeeds, one fails
C8_Scenario(n) ==
    [i \in 1..(n + 4) |->
        IF i <= n THEN "True"
        ELSE IF i = n + 1 THEN "False"
        ELSE IF i = n + 2 THEN "release"
        ELSE IF i = n + 3 THEN "True" ELSE "False"]
C8_Calls(h) == [i \in 1..Len(h) |-> IF h[i] = "release" THEN "release" ELSE "acquire"]
C8_Count(h, x) == Cardinality({i \in 1..Len(h) : h[i] = x})

\* C8: on a fresh queue of limit N exactly N consecutive acquire(blocking=False)
\* return True and the next returns False; after one release() exactly one more
\* returns True and the next False; a failed acquire takes no slot (the free
\* slots are N minus the successful acquires plus the releases).
C8_NonBlockingAcquire ==
    queue.live =>
        /\ queue.semaphore = queue.max_concurrent - C8_Count(hist, "True") + C8_Count(hist, "release")
        /\ LET want == C8_Scenario(queue.max_concurrent)
           IN  (Len(hist) <= Len(want) /\ C8_Calls(hist) = C8_Calls(SubSeq(want, 1, Len(hist))))
                   => hist = SubSeq(want, 1, Len(hist))

\* C8 witness: the whole scenario has run on a queue of limit 2
C8_Witness ==
    queue.live /\ queue.max_concurrent = 2 /\ hist = <<"True", "True", "False", "release", "True", "False">>

\* C9: DownloadQueue(n) raises for every n < 1 and every n > 10, and for n in
\* 1..10 yields active = 0, queued = 0 and n free slots.
C9_Construction ==
    call.op = "DownloadQueue" =>
        LET n == call.args[1]
        IN  IF n < 1 \/ n > 10
            THEN call.ret = "ValueError" /\ built = "ValueError" /\ ~queue.live
            ELSE /\ call.ret = "ok" /\ built = "ok" /\ queue.live
                 /\ queue.active = 0 /\ queue.queued = 0
                 /\ queue.max_concurrent = n /\ queue.semaphore = n

\* C9 witness: a limit above 10 has been refused
C9_Witness ==
    call.op = "DownloadQueue" /\ call.args[1] = 11 /\ call.ret = "ValueError"

\* C10: AppConfig(...) raises exactly for max_concurrent_downloads outside 1..10,
\* notification_duration < 1 or item_removal_delay < 0, so building the details
\* screen from a constructed AppConfig never fails.
C10_ConfigFailsFast ==
    /\ call.op = "AppConfig" =>
          (call.ret = "ValueError" <=>
              (call.args[1] < 1 \/ call.args[1] > 10 \/ call.args[2] < 1 \/ call.args[3] < 0))
    /\ call.op = "BundleDetailsScreen" => call.ret = "ok"

\* C24: release() is not guarded by the queue: it never blocks and never
\* fails, also without a matching acquire, and it raises the free slots above
\* max_concurrent: after one unmatched release() on a fresh queue of limit N,
\* N + 1 acquire(blocking=False) return True (and the next one False).
C24_UnguardedRelease ==
    queue.live =>
        /\ Len(hist) < MaxHist => ENABLED CallRelease
        /\ call.op = "release" => (call.ret = "None" /\ queue.semaphore >= 1)
        /\ (Len(hist) >= 1 /\ hist[1] = "release" /\ \A i \in 2..Len(hist) : hist[i] # "release") =>
               \A i \in 2..Len(hist) :
                   hist[i] = IF i - 1 <= queue.max_concurrent + 1 THEN "True" ELSE "False"

\* C24 witness: on a fresh queue of limit 2 an unmatched release() was
\* followed by three successful acquires and a failed one
C24_Witness ==
    /\ queue.live /\ queue.max_concurrent = 2
    /\ hist = <<"release", "True", "True", "True", "False">>
    /\ queue.semaphore = 0

\* ===================================================== claims, SpecScenario

\* C11: with a queue of limit 2 and three requests for distinct (item, format)
\* pairs, get_stats() returns active = 2, queued = 1, max_concurrent = 2 at the
\* instant two transfers run and the third request is blocked in acquire(), and
\* active = 0, queued = 0, max_concurrent = 2 once all three requests have ended.
C11_ScenarioSnapshots ==
    /\ (/\ Cardinality({w \in ScenarioWorkers : pc[w] = "transfer"}) = 2
        /\ Cardinality({w \in ScenarioWorkers : pc[w] = "acquire"}) = 1)
           => get_stats(queue) = [active |-> 2, queued |-> 1, max_concurrent |-> 2]
    /\ (\A w \in ScenarioWorkers : pc[w] = "idle")
           => get_stats(queue) = [active |-> 0, queued |-> 0, max_concurrent |-> 2]

\* C11 witness: two transfers are running and the third request cannot be
\* admitted, no slot being free
C11_Witness ==
    /\ Cardinality({w \in ScenarioWorkers : pc[w] = "transfer"}) = 2
    /\ Cardinality({w \in ScenarioWorkers : pc[w] = "acquire"}) = 1
    /\ ~acquire_enabled(queue)

\* C13: a request for one format of an item changes only that format's
\* queued, downloading and completed flags: every step leaves the flags of
\* every (item, format) that is not the target of the request taking the step
\* unchanged.  For the item with formats [EPUB, PDF], both not completed, a
\* successful EPUB download leaves format_status = {EPUB: true, PDF: false}
\* and _all_formats_downloaded false; a successful PDF download after it makes
\* _all_formats_downloaded true.
C13_PerFormatIndependence ==
    [][/\ \A t \in Targets :
            (\A w \in Workers : pc'[w] # pc[w] => t # <<w_row[w], w_fmt[w]>>) =>
                /\ format_status'[t[1]][t[2]] = format_status[t[1]][t[2]]
                /\ format_queued'[t[1]][t[2]] = format_queued[t[1]][t[2]]
                /\ format_downloading'[t[1]][t[2]] = format_downloading[t[1]][t[2]]
       /\ \A w \in Workers :
            (pc[w] = "result" /\ pc'[w] = "cleanup" /\ outcome[w] = "true" /\ w_row[w] = 1) =>
                /\ (w_fmt[w] = "EPUB" /\ format_status[1] = [f \in {"EPUB", "PDF"} |-> FALSE]) =>
                       /\ format_status'[1] = [f \in {"EPUB", "PDF"} |-> f = "EPUB"]
                       /\ ~all_formats_downloaded(formats'[1], format_status'[1])
                /\ (w_fmt[w] = "PDF" /\ format_status[1] = [f \in {"EPUB", "PDF"} |-> f = "EPUB"]) =>
                       all_formats_downloaded(formats'[1], format_status'[1])]_vars

\* C13 witness: the EPUB download of the [EPUB, PDF] item has succeeded while
\* a request for its PDF is waiting, and only EPUB is completed
C13_Witness ==
    \E w \in Workers, v \in Workers :
        /\ pc[w] = "cleanup" /\ outcome[w] = "true"
        /\ <<w_row[w], w_fmt[w]>> = <<1, "EPUB">>
        /\ pc[v] = "acquire" /\ <<w_row[v], w_fmt[v]>> = <<1, "PDF">>
        /\ format_status[1] = [f \in {"EPUB", "PDF"} |-> f = "EPUB"]
        /\ format_queued[1]["PDF"] /\ ~format_queued[1]["EPUB"]
        /\ ~all_formats_downloaded(formats[1], format_status[1])

\* C14: the completed flag is sticky: no step of the orchestrator
\* (submission, queued, started, success, failure, error, cleanup, release)
\* sets a format_status entry that is true back to false.
C14_CompletedIsSticky ==
    [][\A t \in Targets : format_status[t[1]][t[2]] => format_status'[t[1]][t[2]]]_vars

\* C14 witness: a request for the PDF of an item has ended with a failure or
\* an error and has been cleaned up, and the item's EPUB is still completed
C14_Witness ==
    \E w \in Workers :
        /\ pc[w] = "release" /\ outcome[w] \in {"false", "raise"}
        /\ <<w_row[w], w_fmt[w]>> = <<1, "PDF">>
        /\ format_status[1]["EPUB"] /\ ~format_status[1]["PDF"]

\* C15: in every reachable state the queued and downloading flags of an
\* (item, format) are never both true.
C15_QueuedXorDownloading ==
    \A t \in Targets : ~(format_queued[t[1]][t[2]] /\ format_downloading[t[1]][t[2]])

\* C17: every admitted request calls mark_completed() (active - 1) before
\* release(), and release() is its last action: the worker ends with it.  So
\* mark_started is never executed while active equals max_concurrent, and
\* active <= max_concurrent in every reachable state.
C17_ReleaseIsLast ==
    [][/\ queue.active <= queue.max_concurrent
       /\ queue'.active <= queue'.max_concurrent
       /\ \A w \in Workers :
            /\ (pc[w] = "cleanup" /\ pc'[w] # "cleanup") =>
                   /\ pc'[w] = "release"
                   /\ queue'.active = queue.active - 1
                   /\ queue'.semaphore = queue.semaphore
            /\ (pc[w] = "release" /\ pc'[w] # "release") =>
                   /\ n_mark_completed[w] = 1
                   /\ queue'.semaphore = queue.semaphore + 1
                   /\ queue'.active = queue.active
                   /\ pc'[w] = "idle"
            /\ (pc[w] = "started" /\ pc'[w] = "transfer") =>
                   /\ queue.active < queue.max_concurrent
                   /\ queue'.active = queue.active + 1
            /\ (pc[w] # "release" /\ pc'[w] = "idle") => pc[w] \in {"idle", "guard"}]_vars

\* C17 witness: a request has called mark_completed and not yet release, and
\* another request is waiting in acquire() for its slot
C17_Witness ==
    \E w \in Workers, v \in Workers :
        /\ pc[w] = "release" /\ n_mark_completed[w] = 1
        /\ pc[v] = "acquire"
        /\ ~acquire_enabled(queue)
        /\ queue.active = queue.max_concurrent - 1

\* ------------------------------ claims, Spec: timers, duplicates, formats

\* C25: a step removes a row from the list only when, at that moment, every
\* format of the row is completed: a row with a format that is not completed
\* (queued and downloading ones included) stays, however many removal timers
\* the successes of its other formats have scheduled.
C25_RemovedOnlyWhenComplete ==
    [][\A r \in Rows :
          (r \in items_list /\ r \notin items_list') =>
              /\ timers[r] > 0 /\ timers'[r] = timers[r] - 1
              /\ \A f \in FormatsOf(r) : format_status[r][f]]_vars

\* both formats of row 1 were downloaded, two timers were scheduled, the first
\* one to fire removed the row and the second one is still pending
C25_Witness ==
    /\ 1 \notin items_list
    /\ \A f \in FormatsOf(1) : format_status[1][f]
    /\ timers[1] = 1

\* C26: of the download_format workers submitted for the same (item, format),
\* at most one passes the guard: no two requests past the guard (queued,
\* admitted or transferring) are for the same (item, format).
C26_OnePassesGuard ==
    \A w, v \in Workers :
        (w # v /\ pc[w] \in Admitted /\ pc[v] \in Admitted) =>
            <<w_row[w], w_fmt[w]>> # <<w_row[v], w_fmt[v]>>

\* C30: a request is bound to the format that was selected on its row when
\* its worker started.  The worker keeps that format to its end whatever
\* cycle_format does to the row meanwhile: download_item is called with it,
\* and a step changes the queued / downloading / completed flag of an
\* (item, format) only when it is a step of a request bound to that pair.
C30_BoundToSelectedAtStart ==
    [][/\ \A w \in Workers :
            /\ (pc[w] = "idle" /\ pc'[w] # "idle") => w_fmt'[w] = selected_format[w_row'[w]]
            /\ (pc[w] # "idle" /\ pc'[w] # "idle") =>
                   (w_fmt'[w] = w_fmt[w] /\ w_row'[w] = w_row[w])
            /\ (pc[w] = "transfer" /\ pc'[w] = "transfer") => t_args'[w] = t_args[w]
            /\ pc'[w] = "transfer" => t_args'[w].format_name = w_fmt'[w]
       /\ \A t \in Targets :
            (\/ format_queued'[t[1]][t[2]] # format_queued[t[1]][t[2]]
             \/ format_downloading'[t[1]][t[2]] # format_downloading[t[1]][t[2]]
             \/ format_status'[t[1]][t[2]] # format_status[t[1]][t[2]]) =>
                \E w \in Workers :
                    pc'[w] # pc[w] /\ w_row[w] = t[1] /\ w_fmt[w] = t[2]]_vars

\* the row shows PDF by now, the request started for EPUB: download_item was
\* called for EPUB and returned True, the tracker has the EPUB file, and the
\* flags of PDF are untouched
C30_Witness ==
    \E w \in Workers :
        /\ pc[w] = "result" /\ outcome[w] = "true"
        /\ w_row[w] = 1 /\ w_fmt[w] = "EPUB" /\ selected_format[1] = "PDF"
        /\ t_args[w].format_name = "EPUB"
        /\ create_file_id(t_args[w].bundle_key, t_args[w].item_number, "EPUB") \in tracker
        /\ format_downloading[1]["EPUB"]
        /\ ~format_downloading[1]["PDF"] /\ ~format_queued[1]["PDF"] /\ ~format_status[1]["PDF"]

\* ======================================================== claims, SpecLive

C18_TransferError(w) == IF error[w].cause # "None" THEN Raised(error[w].cause) ELSE error[w]

\* the steps of _handle_download_error, all but the text of the notification
C18_Contained(w) ==
    /\ format_downloading'[w_row[w]][w_fmt[w]] = FALSE
    /\ Len(notified[w]) = 0 /\ Len(notified'[w]) = 1
    /\ pc'[w] = "cleanup"
    /\ error'[w] = NoError
    /\ \A v \in Workers \ {w} : pc'[v] = pc[v]
    /\ queue' = queue

\* C18 (as stated): an exception raised by the transfer is caught, the
\* downloading flag is cleared, exactly one notification is emitted, cleanup
\* follows and the other requests go on; the notification carries the
\* user_message of the transfer's exception when that is a HumbleToolsError
\* and str(error) otherwise.
C18_NotifiesTransferError ==
    [][\A w \in Workers :
          (pc[w] = "result" /\ outcome[w] = "raise" /\ pc'[w] # "result") =>
              /\ C18_Contained(w)
              /\ notified'[w][1] = IF C18_TransferError(w).class = "HumbleToolsError"
                                   THEN C18_TransferError(w).user_message
                                   ELSE C18_TransferError(w).str]_vars

\* C18 (amended): as above, but the notification carries the user_message of
\* the exception that reaches "except Exception": for a HumbleCLIError and for
\* an IOError / OSError of the transfer that is the DownloadError the worker
\* wraps it in ("Download failed for <item>. Please try again.", "File error
\* during download: <error>"), for a HumbleToolsError its own user_message,
\* and str(error) for any other exception.  A request that ended this way has
\* emitted exactly one notification and holds no exception when it cleans up
\* and releases.
C18_NotifiesCaughtError ==
    [][\A w \in Workers :
          /\ (pc[w] = "result" /\ outcome[w] = "raise" /\ pc'[w] # "result") =>
                /\ C18_Contained(w)
                /\ notified'[w][1] =
                      IF C18_TransferError(w).class = "HumbleCLIError"
                      THEN "Download failed for item_name. Please try again."
                      ELSE IF C18_TransferError(w).class = "OSError"
                      THEN "File error during download: str of the error"
                      ELSE IF C18_TransferError(w).class = "HumbleToolsError"
                      THEN C18_TransferError(w).user_message
                      ELSE C18_TransferError(w).str
          /\ (pc[w] \in {"cleanup", "release"} /\ outcome[w] = "raise") =>
                /\ Len(notified[w]) = 1 /\ error[w] = NoError
                /\ pc'[w] # pc[w] => pc'[w] = IF pc[w] = "cleanup" THEN "release" ELSE "idle"]_vars

\* C18 witness: the transfer of one request raised a HumbleCLIError, the
\* request has notified the wrapped message and is about to clean up, and
\* another request is still waiting for its slot
C18_Witness ==
    \E w \in Workers, v \in Workers :
        /\ pc[w] = "cleanup" /\ outcome[w] = "raise"
        /\ notified[w] = <<"Download failed for item_name. Please try again.">>
        /\ ~format_downloading[w_row[w]][w_fmt[w]]
        /\ pc[v] = "acquire"

\* ==================================================== claims, SpecRetryFair

\* the calls of download_item for the target t, oldest first
C19_Calls(t) ==
    SelectSeq(call_args_list,
              LAMBDA c : c.args.item_number = item_number[t[1]] /\ c.args.format_name = t[2])

\* the last request for t ended in failure (False) or error (exception)
C19_Failed(t) ==
    /\ Len(C19_Calls(t)) > 0
    /\ C19_Calls(t)[Len(C19_Calls(t))].result \in {"false", "raise"}

\* C19: after a request for an (item, format) has ended in failure or error
\* the format is not completed, not queued and not downloading, so the guard
\* accepts a new submission for it; the submission is then queued, admitted
\* and calls download_item for the same (item, format) again.
C19_RetryAfterFailure ==
    /\ [](\A t \in Targets :
            (pc[Observed] = "idle" /\ C19_Failed(t)) =>
                /\ ~Get(format_downloading, t[1], t[2])
                /\ ~Get(format_queued, t[1], t[2])
                /\ ~Get(format_status, t[1], t[2]))
    /\ \A t \in Targets :
          (pc[Observed] = "guard" /\ <<w_row[Observed], w_fmt[Observed]>> = t /\ C19_Failed(t))
             ~> (/\ pc[Observed] = "transfer"
                 /\ <<w_row[Observed], w_fmt[Observed]>> = t
                 /\ t_args[Observed] = [bundle_key |-> bundle_key,
                                         item_number |-> item_number[t[1]],
                                         format_name |-> t[2]]
                 /\ C19_Failed(t))

\* C19 witness: download_item has been called twice for the same
\* (item, format), the first call having returned False or raised
C19_Witness ==
    \E t \in Targets :
        /\ Len(C19_Calls(t)) = 2
        /\ C19_Calls(t)[1].result \in {"false", "raise"}
        /\ C19_Calls(t)[2].result = "true"
        /\ pc[Observed] = "cleanup"
        /\ format_status[t[1]][t[2]]

\* ========================================================== claims, SpecNav

\* a step of on_go_back, on_bundle_selected / load_bundle or load_details
C20_Navigates ==
    current_screen' # current_screen \/ bundle_key' # bundle_key \/ loading' # loading

\* the request of worker w as it was submitted: (bundle key, item number,
\* format name)
C20_Request(w) ==
    [bundle_key |-> w_bundle[w], item_number |-> item_number[w_row[w]], format_name |-> w_fmt[w]]

\* the position of every worker, its row and format, the flags of its row,
\* the queue counters and the semaphore
C20_InFlight ==
    <<pc, w_row, w_fmt, outcome, w_bundle, t_args, queue,
      [w \in Workers |-> IF pc[w] = "idle" THEN << >>
                         ELSE <<format_status[w_row[w]], format_queued[w_row[w]],
                                format_downloading[w_row[w]]>>]>>

\* C20: there is no cancellation: going back and opening a bundle leave
\* every in-flight request, the queue counters and the semaphore unchanged,
\* and every request that is queued or active goes on to the transfer of what
\* was submitted, to success, failure or error, and then to cleanup and
\* release.
C20_NoCancellation ==
    [][/\ C20_Navigates => C20_InFlight' = C20_InFlight
       /\ \A w \in Workers :
            /\ (pc[w] = "acquire" /\ pc'[w] # pc[w]) => pc'[w] = "started"
            /\ (pc[w] = "started" /\ pc'[w] # pc[w]) =>
                   /\ pc'[w] = "transfer"
                   /\ t_args'[w] = C20_Request(w)
            /\ (pc[w] = "transfer" /\ pc'[w] # pc[w]) => pc'[w] = "result"
            /\ (pc[w] = "result" /\ pc'[w] # pc[w]) => pc'[w] = "cleanup"
            /\ (pc[w] = "cleanup" /\ pc'[w] # pc[w]) => pc'[w] = "release"]_vars

\* ======================================================= claims, SpecFaults

\* C22: a failure of the display bookkeeping cannot stall downloads: a
\* request that holds a slot gives it back when it ends, whatever failed on
\* its way, so when no request is in flight all max_concurrent slots are free.
C22_SlotAlwaysReleased ==
    [][/\ \A w \in Workers :
            (pc[w] \in Holding /\ pc'[w] = "idle") => queue'.semaphore = queue.semaphore + 1
       /\ (\A w \in Workers : pc'[w] = "idle") => queue'.semaphore = queue'.max_concurrent]_vars

\* C27: in every reachable state, queued is the number of requests that have
\* executed mark_queued and not yet mark_started (a request that holds a slot
\* and waits for _handle_download_started is among them), active is the number
\* that have executed mark_started and not yet mark_completed, and active is
\* at most the number of slots held.
C27_CountersFollowWorkers ==
    /\ queue.queued = Cardinality({w \in Workers : pc[w] \in {"acquire", "started"}})
    /\ queue.active = Cardinality({w \in Workers : pc[w] \in {"transfer", "result", "cleanup"}})
    /\ queue.active <= queue.max_concurrent - queue.semaphore

\* one request holds the slot and is still counted as queued, another one
\* waits in acquire()
C27_Witness ==
    /\ \E w, v \in Workers : pc[w] = "started" /\ pc[v] = "acquire"
    /\ queue.queued = 2 /\ queue.active = 0
    /\ queue.semaphore = queue.max_concurrent - 1

\* C29: in every reachable state the number of (item, format) pairs whose
\* downloading flag is true is at most max_concurrent, and the flag of a pair
\* is true only while a worker for that pair holds a slot of the semaphore.
C29_DownloadingHoldsSlot ==
    /\ Cardinality({t \in Targets : format_downloading[t[1]][t[2]]}) <= queue.max_concurrent
    /\ \A t \in Targets :
           format_downloading[t[1]][t[2]] =>
               \E w \in Workers : /\ pc[w] \in Holding
                                  /\ w_row[w] = t[1] /\ w_fmt[w] = t[2]

\* one format of row 1 is downloading in the only slot while a request for
\* the other format of the row waits in acquire()
C29_Witness ==
    \E w, v \in Workers :
        /\ pc[w] = "transfer" /\ pc[v] = "acquire"
        /\ w_row[w] = w_row[v] /\ w_fmt[w] # w_fmt[v]
        /\ format_downloading[w_row[w]][w_fmt[w]]
        /\ ~format_downloading[w_row[v]][w_fmt[v]] /\ format_queued[w_row[v]][w_fmt[v]]
        /\ queue.semaphore = 0

\* ========================================================= claims, SpecLock

\* the counters after the calls that have returned so far
C21_Committed ==
    [active |-> done.mark_started - done.mark_completed,
     queued |-> done.mark_queued - done.mark_started]

\* C21: under any interleaving of mark_queued / mark_started /
\* mark_completed with get_stats, the QueueStats that get_stats returns holds
\* the (active, queued) pair the queue had at one instant between two calls,
\* never the state inside mark_started; and no update is lost: whenever no
\* call is inside the lock the counters are those of the calls that returned.
C21_ConsistentSnapshot ==
    /\ \A t \in Threads :
          (t_op[t] = "get_stats" /\ t_pc[t] = Len(Statements("get_stats")) + 1) =>
              t_stats[t] = [active |-> C21_Committed.active,
                            queued |-> C21_Committed.queued,
                            max_concurrent |-> queue.max_concurrent]
    /\ lock = NoThread =>
          /\ queue.active = C21_Committed.active
          /\ queue.queued = C21_Committed.queued

\* C21 witness: get_stats is about to return (active 1, queued 1) while
\* another thread waits for the lock in mark_started
C21_Witness ==
    \E t \in Threads, u \in Threads :
        /\ t_op[t] = "get_stats" /\ t_pc[t] = Len(Statements("get_stats")) + 1
        /\ t_stats[t].active = 1 /\ t_stats[t].queued = 1
        /\ t_op[u] = "mark_started" /\ t_pc[u] = 0

\* C23: download_item calls tracker.mark_downloaded, for the
\* (bundle, item, format) it was called with, exactly once after a transfer
\* that returned true, and not at all after one that returned false or
\* raised; the exception of a transfer that raised reaches the worker.  No
\* other step changes the tracker.
C23_TrackedIffTransferred ==
    [][\A w \in Workers :
          IF pc[w] = "transfer" /\ pc'[w] # "transfer"
          THEN /\ pc'[w] = "result"
               /\ outcome'[w] \in {"true", "false", "raise"}
               /\ outcome'[w] = "true" =>
                     /\ tracker' = tracker \cup {<<t_args[w].bundle_key, t_args[w].item_number,
                                                    Lower(t_args[w].format_name)>>}
                     /\ n_mark_downloaded'[w] = 1
                     /\ error'[w] = NoError
               /\ outcome'[w] = "false" =>
                     /\ tracker' = tracker
                     /\ n_mark_downloaded'[w] = 0
                     /\ error'[w] = NoError
               /\ outcome'[w] = "raise" =>
                     /\ tracker' = tracker
                     /\ n_mark_downloaded'[w] = 0
                     /\ error'[w] # NoError
          ELSE (\A v \in Workers : ~(pc[v] = "transfer" /\ pc'[v] # "transfer")) =>
                     tracker' = tracker]_vars

\* C23 witness: the transfer of an item's PDF returned true and the file is
\* in the tracker, the item's EPUB is not
C23_Witness ==
    \E w \in Workers :
        /\ pc[w] = "result" /\ outcome[w] = "true"
        /\ n_mark_downloaded[w] = 1
        /\ t_args[w] = [bundle_key |-> "bundle_a", item_number |-> 1, format_name |-> "PDF"]
        /\ <<"bundle_a", 1, "pdf">> \in tracker
        /\ <<"bundle_a", 1, "epub">> \notin tracker

\* ========================================================== claims, SpecRow

\* C12: _all_formats_downloaded(row) returns true iff every format in
\* row.formats is completed in row.format_status, a format missing from
\* format_status counting as not completed; for a row without formats it
\* returns true.
C12_AllFormatsDownloaded ==
    call.op = "_all_formats_downloaded" =>
        LET r == call.args[1]
        IN  /\ call.ret \in {"True", "False"}
            /\ call.ret = "True" <=>
                  \A f \in Range(formats[r]) : f \in DOMAIN format_status[r] /\ format_status[r][f]
            /\ Len(formats[r]) = 0 => call.ret = "True"

\* C12 witness: false for a row whose second format is missing from format_status
C12_Witness ==
    /\ call.op = "_all_formats_downloaded"
    /\ call.ret = "False"
    /\ formats[1] = <<"EPUB", "PDF">>
    /\ DOMAIN format_status[1] = {"EPUB"}
    /\ format_status[1]["EPUB"]

\* C16: for every combination of the queued, downloading and completed flags
\* of a format, also those the orchestrator never produces,
\* _get_status_indicator returns the indicator of the first set flag in the
\* order queued, downloading, completed, and the not-downloaded one otherwise.
C16_IndicatorPrecedence ==
    call.op = "_get_status_indicator" =>
        LET r == call.args[1]
            fmt == call.args[2]
            is_queued == fmt \in DOMAIN format_queued[r] /\ format_queued[r][fmt]
            is_downloading == fmt \in DOMAIN format_downloading[r] /\ format_downloading[r][fmt]
            is_completed == fmt \in DOMAIN format_status[r] /\ format_status[r][fmt]
        IN  /\ is_queued => call.ret = <<"QUEUED", "INFO">>
            /\ (~is_queued /\ is_downloading) => call.ret = <<"DOWNLOADING", "WARNING">>
            /\ (~is_queued /\ ~is_downloading /\ is_completed) => call.ret = <<"DOWNLOADED", "SUCCESS">>
            /\ (~is_queued /\ ~is_downloading /\ ~is_completed) => call.ret = <<"NOT_DOWNLOADED", "None">>

\* C16 witness: all three flags of the format are set and the queued
\* indicator is returned
C16_Witness ==
    /\ call.op = "_get_status_indicator"
    /\ call.args[2] = "PDF"
    /\ call.ret = <<"QUEUED", "INFO">>
    /\ "PDF" \in DOMAIN format_queued[1] /\ format_queued[1]["PDF"]
    /\ "PDF" \in DOMAIN format_downloading[1] /\ format_downloading[1]["PDF"]
    /\ "PDF" \in DOMAIN format_status[1] /\ format_status[1]["PDF"]

====
